---- MODULE Spec2Model ----
(***************************************************************************)
(* Model of the Google Ads Transparency scraper (src/main.py): the two     *)
(* HTTP handlers (/ping, /scrape), the advertiser-ID lookup                *)
(* (get_advertiser_id), the video check (check_advertiser_videos), the     *)
(* string helpers they use, and the browser function no handler calls      *)
(* (get_page_content).  A Python str is a sequence of one-character        *)
(* strings; None is the one-element sequence <<"None">>, which is no str.   *)
(* Every await of a handler is one step, so the steps of concurrent        *)
(* requests interleave the way the asyncio event loop interleaves them.    *)
(***************************************************************************)
EXTENDS Integers, Sequences, FiniteSets, TLC

None == <<"None">>

\* ------------------------------------------------------------------ bounds

\* Number of browser operations that fail (raise) in one run with a single
\* /scrape request.
MaxFaults == 2
\* Number of browser operations that fail (raise) in one run with two
\* overlapping /scrape requests.
MaxConcurrentFaults == 1

\* Number of browser operations that fail (raise) in one call of a function
\* called on its own.
MaxDirectFaults == 2

\* The /scrape requests: two, so that they can overlap.
Requests == {1, 2}
\* The caller of a function called on its own, outside every request.
Direct == 0
\* Whoever runs code of the module: each has its own browser processes, and
\* the files it wrote are recorded under it.
Callers == Requests \cup {Direct}

\* ----------------------------------------------------------------- strings

\* A character is a one-character string.  A printable ASCII character is
\* itself, and so are "\t", "\n", "\f" and "\r"; any other character, and the
\* backquote, which a string of this language cannot hold, is named by its
\* code point the way Python escapes it: "\\x0b", "\\x60", "\\u0661",
\* "\\U0001d7ce".

\* The characters of code points 32..126.
Ascii == <<" ","!","\"","#","$","%","&","'","(",")","*","+",
         ",","-",".","/","0","1","2","3","4","5","6","7",
         "8","9",":",";","<","=",">","?","@","A","B","C",
         "D","E","F","G","H","I","J","K","L","M","N","O",
         "P","Q","R","S","T","U","V","W","X","Y","Z","[",
         "\\","]","^","_","\\x60","a","b","c","d","e","f","g",
         "h","i","j","k","l","m","n","o","p","q","r","s",
         "t","u","v","w","x","y","z","{","|","}","~">>

\* chr(n): the character of code point n.
chr(n) ==
    LET HexDigit == <<"0","1","2","3","4","5","6","7","8","9",
                      "a","b","c","d","e","f">>
        RECURSIVE Hex(_, _)
        Hex(k, width) ==
            IF width = 0 THEN ""
            ELSE Hex(k \div 16, width - 1) \o HexDigit[(k % 16) + 1]
    IN IF n \in 32..126 THEN Ascii[n - 31]
       ELSE IF n = 9 THEN "\t"
       ELSE IF n = 10 THEN "\n"
       ELSE IF n = 12 THEN "\f"
       ELSE IF n = 13 THEN "\r"
       ELSE IF n < 256 THEN "\\x" \o Hex(n, 2)
       ELSE IF n < 65536 THEN "\\u" \o Hex(n, 4)
       ELSE "\\U" \o Hex(n, 8)

\* The characters of the code points lo..hi.
CharRange(lo, hi) == { chr(n) : n \in lo..hi }

UpperLetters == <<"A","B","C","D","E","F","G","H","I","J","K","L","M",
                  "N","O","P","Q","R","S","T","U","V","W","X","Y","Z">>

\* [0-9] of a pattern.
AsciiDigits == {"0","1","2","3","4","5","6","7","8","9"}

\* The characters str.strip() removes (str.isspace()).
Whitespace ==
    { chr(n) : n \in
        { 9, 10, 11, 12, 13, 28, 29, 30, 31, 32, 133, 160, 5760, 8192, 8193, 8194,
        8195, 8196, 8197, 8198, 8199, 8200, 8201, 8202, 8232, 8233, 8239, 8287,
        12288 } }

\* \d of a str pattern: every Unicode decimal digit (category Nd).  The
\* code points listed are those of the zeros; the digits one to nine follow
\* each zero.
Digits ==
    LET DigitBlocks ==
            { 48, 1632, 1776, 1984, 2406, 2534, 2662, 2790, 2918, 3046, 3174, 3302,
            3430, 3558, 3664, 3792, 3872, 4160, 4240, 6112, 6160, 6470, 6608, 6784,
            6800, 6992, 7088, 7232, 7248, 42528, 43216, 43264, 43472, 43504, 43600,
            44016, 65296, 66720, 68912, 69734, 69872, 69942, 70096, 70384, 70736,
            70864, 71248, 71360, 71472, 71904, 72016, 72784, 73040, 73120, 92768,
            92864, 93008, 120782, 120792, 120802, 120812, 120822, 123200, 123632,
            125264, 130032 }
    IN { chr(zero + i) : zero \in DigitBlocks, i \in 0..9 }

Range(s) == {s[i] : i \in DOMAIN s}

\* The characters str.lower() changes, each with the str it becomes.
\* LowerRuns holds the code points that map to one other code point, as
\* <<first, last, step, offset>>: every step-th code point from first to
\* last becomes the code point offset further on; capital I with dot above
\* (U+0130) becomes two characters.
LowerTable ==
    LET LowerRuns ==
            { <<65,90,1,32>>, <<192,214,1,32>>, <<216,222,1,32>>, <<256,302,2,1>>,
              <<306,310,2,1>>, <<313,327,2,1>>, <<330,374,2,1>>, <<376,376,1,-121>>,
              <<377,381,2,1>>, <<385,385,1,210>>, <<386,388,2,1>>, <<390,390,1,206>>,
              <<391,391,1,1>>, <<393,394,1,205>>, <<395,395,1,1>>, <<398,398,1,79>>,
              <<399,399,1,202>>, <<400,400,1,203>>, <<401,401,1,1>>,
              <<403,403,1,205>>, <<404,404,1,207>>, <<406,406,1,211>>,
              <<407,407,1,209>>, <<408,408,1,1>>, <<412,412,1,211>>,
              <<413,413,1,213>>, <<415,415,1,214>>, <<416,420,2,1>>,
              <<422,422,1,218>>, <<423,423,1,1>>, <<425,425,1,218>>, <<428,428,1,1>>,
              <<430,430,1,218>>, <<431,431,1,1>>, <<433,434,1,217>>, <<435,437,2,1>>,
              <<439,439,1,219>>, <<440,440,1,1>>, <<444,444,1,1>>, <<452,452,1,2>>,
              <<453,453,1,1>>, <<455,455,1,2>>, <<456,456,1,1>>, <<458,458,1,2>>,
              <<459,475,2,1>>, <<478,494,2,1>>, <<497,497,1,2>>, <<498,500,2,1>>,
              <<502,502,1,-97>>, <<503,503,1,-56>>, <<504,542,2,1>>,
              <<544,544,1,-130>>, <<546,562,2,1>>, <<570,570,1,10795>>,
              <<571,571,1,1>>, <<573,573,1,-163>>, <<574,574,1,10792>>,
              <<577,577,1,1>>, <<579,579,1,-195>>, <<580,580,1,69>>, <<581,581,1,71>>,
              <<582,590,2,1>>, <<880,882,2,1>>, <<886,886,1,1>>, <<895,895,1,116>>,
              <<902,902,1,38>>, <<904,906,1,37>>, <<908,908,1,64>>, <<910,911,1,63>>,
              <<913,929,1,32>>, <<931,939,1,32>>, <<975,975,1,8>>, <<984,1006,2,1>>,
              <<1012,1012,1,-60>>, <<1015,1015,1,1>>, <<1017,1017,1,-7>>,
              <<1018,1018,1,1>>, <<1021,1023,1,-130>>, <<1024,1039,1,80>>,
              <<1040,1071,1,32>>, <<1120,1152,2,1>>, <<1162,1214,2,1>>,
              <<1216,1216,1,15>>, <<1217,1229,2,1>>, <<1232,1326,2,1>>,
              <<1329,1366,1,48>>, <<4256,4293,1,7264>>, <<4295,4295,1,7264>>,
              <<4301,4301,1,7264>>, <<5024,5103,1,38864>>, <<5104,5109,1,8>>,
              <<7312,7354,1,-3008>>, <<7357,7359,1,-3008>>, <<7680,7828,2,1>>,
              <<7838,7838,1,-7615>>, <<7840,7934,2,1>>, <<7944,7951,1,-8>>,
              <<7960,7965,1,-8>>, <<7976,7983,1,-8>>, <<7992,7999,1,-8>>,
              <<8008,8013,1,-8>>, <<8025,8031,2,-8>>, <<8040,8047,1,-8>>,
              <<8072,8079,1,-8>>, <<8088,8095,1,-8>>, <<8104,8111,1,-8>>,
              <<8120,8121,1,-8>>, <<8122,8123,1,-74>>, <<8124,8124,1,-9>>,
              <<8136,8139,1,-86>>, <<8140,8140,1,-9>>, <<8152,8153,1,-8>>,
              <<8154,8155,1,-100>>, <<8168,8169,1,-8>>, <<8170,8171,1,-112>>,
              <<8172,8172,1,-7>>, <<8184,8185,1,-128>>, <<8186,8187,1,-126>>,
              <<8188,8188,1,-9>>, <<8486,8486,1,-7517>>, <<8490,8490,1,-8383>>,
              <<8491,8491,1,-8262>>, <<8498,8498,1,28>>, <<8544,8559,1,16>>,
              <<8579,8579,1,1>>, <<9398,9423,1,26>>, <<11264,11311,1,48>>,
              <<11360,11360,1,1>>, <<11362,11362,1,-10743>>, <<11363,11363,1,-3814>>,
              <<11364,11364,1,-10727>>, <<11367,11371,2,1>>, <<11373,11373,1,-10780>>,
              <<11374,11374,1,-10749>>, <<11375,11375,1,-10783>>,
              <<11376,11376,1,-10782>>, <<11378,11378,1,1>>, <<11381,11381,1,1>>,
              <<11390,11391,1,-10815>>, <<11392,11490,2,1>>, <<11499,11501,2,1>>,
              <<11506,11506,1,1>>, <<42560,42604,2,1>>, <<42624,42650,2,1>>,
              <<42786,42798,2,1>>, <<42802,42862,2,1>>, <<42873,42875,2,1>>,
              <<42877,42877,1,-35332>>, <<42878,42886,2,1>>, <<42891,42891,1,1>>,
              <<42893,42893,1,-42280>>, <<42896,42898,2,1>>, <<42902,42920,2,1>>,
              <<42922,42922,1,-42308>>, <<42923,42923,1,-42319>>,
              <<42924,42924,1,-42315>>, <<42925,42925,1,-42305>>,
              <<42926,42926,1,-42308>>, <<42928,42928,1,-42258>>,
              <<42929,42929,1,-42282>>, <<42930,42930,1,-42261>>,
              <<42931,42931,1,928>>, <<42932,42946,2,1>>, <<42948,42948,1,-48>>,
              <<42949,42949,1,-42307>>, <<42950,42950,1,-35384>>, <<42951,42953,2,1>>,
              <<42960,42960,1,1>>, <<42966,42968,2,1>>, <<42997,42997,1,1>>,
              <<65313,65338,1,32>>, <<66560,66599,1,40>>, <<66736,66771,1,40>>,
              <<66928,66938,1,39>>, <<66940,66954,1,39>>, <<66956,66962,1,39>>,
              <<66964,66965,1,39>>, <<68736,68786,1,64>>, <<71840,71871,1,32>>,
              <<93760,93791,1,32>>, <<125184,125217,1,34>> }
        LowerPairs ==
            UNION { { <<chr(n), <<chr(n + run[4])>> >> :
                        n \in { k \in run[1]..run[2] : (k - run[1]) % run[3] = 0 } } :
                    run \in LowerRuns }
              \cup { <<chr(304), <<"i", chr(775)>> >> }
    IN [c \in { p[1] : p \in LowerPairs } |->
           (CHOOSE p \in LowerPairs : p[1] = c)[2]]

\* str.lower() of a one-character str.
LowerChar(c) == IF c \in DOMAIN LowerTable THEN LowerTable[c] ELSE <<c>>

\* The characters str.lower() skips when it looks for the letters around a
\* capital sigma (Case_Ignorable), from ranges of code points.
CaseIgnorable ==
    UNION { CharRange(g[1], g[2]) : g \in
        { <<39,39>>, <<46,46>>, <<58,58>>, <<94,94>>, <<96,96>>, <<168,168>>,
          <<173,173>>, <<175,175>>, <<180,180>>, <<183,184>>, <<688,879>>,
          <<884,885>>, <<890,890>>, <<900,901>>, <<903,903>>, <<1155,1161>>,
          <<1369,1369>>, <<1375,1375>>, <<1425,1469>>, <<1471,1471>>,
          <<1473,1474>>, <<1476,1477>>, <<1479,1479>>, <<1524,1524>>,
          <<1536,1541>>, <<1552,1562>>, <<1564,1564>>, <<1600,1600>>,
          <<1611,1631>>, <<1648,1648>>, <<1750,1757>>, <<1759,1768>>,
          <<1770,1773>>, <<1807,1807>>, <<1809,1809>>, <<1840,1866>>,
          <<1958,1968>>, <<2027,2037>>, <<2042,2042>>, <<2045,2045>>,
          <<2070,2093>>, <<2137,2139>>, <<2184,2184>>, <<2192,2193>>,
          <<2200,2207>>, <<2249,2306>>, <<2362,2362>>, <<2364,2364>>,
          <<2369,2376>>, <<2381,2381>>, <<2385,2391>>, <<2402,2403>>,
          <<2417,2417>>, <<2433,2433>>, <<2492,2492>>, <<2497,2500>>,
          <<2509,2509>>, <<2530,2531>>, <<2558,2558>>, <<2561,2562>>,
          <<2620,2620>>, <<2625,2626>>, <<2631,2632>>, <<2635,2637>>,
          <<2641,2641>>, <<2672,2673>>, <<2677,2677>>, <<2689,2690>>,
          <<2748,2748>>, <<2753,2757>>, <<2759,2760>>, <<2765,2765>>,
          <<2786,2787>>, <<2810,2815>>, <<2817,2817>>, <<2876,2876>>,
          <<2879,2879>>, <<2881,2884>>, <<2893,2893>>, <<2901,2902>>,
          <<2914,2915>>, <<2946,2946>>, <<3008,3008>>, <<3021,3021>>,
          <<3072,3072>>, <<3076,3076>>, <<3132,3132>>, <<3134,3136>>,
          <<3142,3144>>, <<3146,3149>>, <<3157,3158>>, <<3170,3171>>,
          <<3201,3201>>, <<3260,3260>>, <<3263,3263>>, <<3270,3270>>,
          <<3276,3277>>, <<3298,3299>>, <<3328,3329>>, <<3387,3388>>,
          <<3393,3396>>, <<3405,3405>>, <<3426,3427>>, <<3457,3457>>,
          <<3530,3530>>, <<3538,3540>>, <<3542,3542>>, <<3633,3633>>,
          <<3636,3642>>, <<3654,3662>>, <<3761,3761>>, <<3764,3772>>,
          <<3782,3782>>, <<3784,3789>>, <<3864,3865>>, <<3893,3893>>,
          <<3895,3895>>, <<3897,3897>>, <<3953,3966>>, <<3968,3972>>,
          <<3974,3975>>, <<3981,3991>>, <<3993,4028>>, <<4038,4038>>,
          <<4141,4144>>, <<4146,4151>>, <<4153,4154>>, <<4157,4158>>,
          <<4184,4185>>, <<4190,4192>>, <<4209,4212>>, <<4226,4226>>,
          <<4229,4230>>, <<4237,4237>>, <<4253,4253>>, <<4348,4348>>,
          <<4957,4959>>, <<5906,5908>>, <<5938,5939>>, <<5970,5971>>,
          <<6002,6003>>, <<6068,6069>>, <<6071,6077>>, <<6086,6086>>,
          <<6089,6099>>, <<6103,6103>>, <<6109,6109>>, <<6155,6159>>,
          <<6211,6211>>, <<6277,6278>>, <<6313,6313>>, <<6432,6434>>,
          <<6439,6440>>, <<6450,6450>>, <<6457,6459>>, <<6679,6680>>,
          <<6683,6683>>, <<6742,6742>>, <<6744,6750>>, <<6752,6752>>,
          <<6754,6754>>, <<6757,6764>>, <<6771,6780>>, <<6783,6783>>,
          <<6823,6823>>, <<6832,6862>>, <<6912,6915>>, <<6964,6964>>,
          <<6966,6970>>, <<6972,6972>>, <<6978,6978>>, <<7019,7027>>,
          <<7040,7041>>, <<7074,7077>>, <<7080,7081>>, <<7083,7085>>,
          <<7142,7142>>, <<7144,7145>>, <<7149,7149>>, <<7151,7153>>,
          <<7212,7219>>, <<7222,7223>>, <<7288,7293>>, <<7376,7378>>,
          <<7380,7392>>, <<7394,7400>>, <<7405,7405>>, <<7412,7412>>,
          <<7416,7417>>, <<7468,7530>>, <<7544,7544>>, <<7579,7679>>,
          <<8125,8125>>, <<8127,8129>>, <<8141,8143>>, <<8157,8159>>,
          <<8173,8175>>, <<8189,8190>>, <<8203,8207>>, <<8216,8217>>,
          <<8228,8228>>, <<8231,8231>>, <<8234,8238>>, <<8288,8292>>,
          <<8294,8303>>, <<8305,8305>>, <<8319,8319>>, <<8336,8348>>,
          <<8400,8432>>, <<11388,11389>>, <<11503,11505>>, <<11631,11631>>,
          <<11647,11647>>, <<11744,11775>>, <<11823,11823>>, <<12293,12293>>,
          <<12330,12333>>, <<12337,12341>>, <<12347,12347>>, <<12441,12446>>,
          <<12540,12542>>, <<40981,40981>>, <<42232,42237>>, <<42508,42508>>,
          <<42607,42610>>, <<42612,42621>>, <<42623,42623>>, <<42652,42655>>,
          <<42736,42737>>, <<42752,42785>>, <<42864,42864>>, <<42888,42890>>,
          <<42994,42996>>, <<43000,43001>>, <<43010,43010>>, <<43014,43014>>,
          <<43019,43019>>, <<43045,43046>>, <<43052,43052>>, <<43204,43205>>,
          <<43232,43249>>, <<43263,43263>>, <<43302,43309>>, <<43335,43345>>,
          <<43392,43394>>, <<43443,43443>>, <<43446,43449>>, <<43452,43453>>,
          <<43471,43471>>, <<43493,43494>>, <<43561,43566>>, <<43569,43570>>,
          <<43573,43574>>, <<43587,43587>>, <<43596,43596>>, <<43632,43632>>,
          <<43644,43644>>, <<43696,43696>>, <<43698,43700>>, <<43703,43704>>,
          <<43710,43711>>, <<43713,43713>>, <<43741,43741>>, <<43756,43757>>,
          <<43763,43764>>, <<43766,43766>>, <<43867,43871>>, <<43881,43883>>,
          <<44005,44005>>, <<44008,44008>>, <<44013,44013>>, <<64286,64286>>,
          <<64434,64450>>, <<65024,65039>>, <<65043,65043>>, <<65056,65071>>,
          <<65106,65106>>, <<65109,65109>>, <<65279,65279>>, <<65287,65287>>,
          <<65294,65294>>, <<65306,65306>>, <<65342,65342>>, <<65344,65344>>,
          <<65392,65392>>, <<65438,65439>>, <<65507,65507>>, <<65529,65531>>,
          <<66045,66045>>, <<66272,66272>>, <<66422,66426>>, <<67456,67461>>,
          <<67463,67504>>, <<67506,67514>>, <<68097,68099>>, <<68101,68102>>,
          <<68108,68111>>, <<68152,68154>>, <<68159,68159>>, <<68325,68326>>,
          <<68900,68903>>, <<69291,69292>>, <<69446,69456>>, <<69506,69509>>,
          <<69633,69633>>, <<69688,69702>>, <<69744,69744>>, <<69747,69748>>,
          <<69759,69761>>, <<69811,69814>>, <<69817,69818>>, <<69821,69821>>,
          <<69826,69826>>, <<69837,69837>>, <<69888,69890>>, <<69927,69931>>,
          <<69933,69940>>, <<70003,70003>>, <<70016,70017>>, <<70070,70078>>,
          <<70089,70092>>, <<70095,70095>>, <<70191,70193>>, <<70196,70196>>,
          <<70198,70199>>, <<70206,70206>>, <<70367,70367>>, <<70371,70378>>,
          <<70400,70401>>, <<70459,70460>>, <<70464,70464>>, <<70502,70508>>,
          <<70512,70516>>, <<70712,70719>>, <<70722,70724>>, <<70726,70726>>,
          <<70750,70750>>, <<70835,70840>>, <<70842,70842>>, <<70847,70848>>,
          <<70850,70851>>, <<71090,71093>>, <<71100,71101>>, <<71103,71104>>,
          <<71132,71133>>, <<71219,71226>>, <<71229,71229>>, <<71231,71232>>,
          <<71339,71339>>, <<71341,71341>>, <<71344,71349>>, <<71351,71351>>,
          <<71453,71455>>, <<71458,71461>>, <<71463,71467>>, <<71727,71735>>,
          <<71737,71738>>, <<71995,71996>>, <<71998,71998>>, <<72003,72003>>,
          <<72148,72151>>, <<72154,72155>>, <<72160,72160>>, <<72193,72202>>,
          <<72243,72248>>, <<72251,72254>>, <<72263,72263>>, <<72273,72278>>,
          <<72281,72283>>, <<72330,72342>>, <<72344,72345>>, <<72752,72758>>,
          <<72760,72765>>, <<72767,72767>>, <<72850,72871>>, <<72874,72880>>,
          <<72882,72883>>, <<72885,72886>>, <<73009,73014>>, <<73018,73018>>,
          <<73020,73021>>, <<73023,73029>>, <<73031,73031>>, <<73104,73105>>,
          <<73109,73109>>, <<73111,73111>>, <<73459,73460>>, <<78896,78904>>,
          <<92912,92916>>, <<92976,92982>>, <<92992,92995>>, <<94031,94031>>,
          <<94095,94111>>, <<94176,94177>>, <<94179,94180>>, <<110576,110579>>,
          <<110581,110587>>, <<110589,110590>>, <<113821,113822>>,
          <<113824,113827>>, <<118528,118573>>, <<118576,118598>>,
          <<119143,119145>>, <<119155,119170>>, <<119173,119179>>,
          <<119210,119213>>, <<119362,119364>>, <<121344,121398>>,
          <<121403,121452>>, <<121461,121461>>, <<121476,121476>>,
          <<121499,121503>>, <<121505,121519>>, <<122880,122886>>,
          <<122888,122904>>, <<122907,122913>>, <<122915,122916>>,
          <<122918,122922>>, <<123184,123197>>, <<123566,123566>>,
          <<123628,123631>>, <<125136,125142>>, <<125252,125259>>,
          <<127995,127999>>, <<917505,917505>>, <<917536,917631>>,
          <<917760,917999>> } }

\* The letters that make a capital sigma after them a final one (Cased and
\* not Case_Ignorable), from ranges of code points.
Cased ==
    UNION { CharRange(g[1], g[2]) : g \in
        { <<65,90>>, <<97,122>>, <<170,170>>, <<181,181>>, <<186,186>>,
          <<192,214>>, <<216,246>>, <<248,442>>, <<444,447>>, <<452,659>>,
          <<661,687>>, <<880,883>>, <<886,887>>, <<891,893>>, <<895,895>>,
          <<902,902>>, <<904,906>>, <<908,908>>, <<910,929>>, <<931,1013>>,
          <<1015,1153>>, <<1162,1327>>, <<1329,1366>>, <<1376,1416>>,
          <<4256,4293>>, <<4295,4295>>, <<4301,4301>>, <<4304,4346>>,
          <<4349,4351>>, <<5024,5109>>, <<5112,5117>>, <<7296,7304>>,
          <<7312,7354>>, <<7357,7359>>, <<7424,7467>>, <<7531,7543>>,
          <<7545,7578>>, <<7680,7957>>, <<7960,7965>>, <<7968,8005>>,
          <<8008,8013>>, <<8016,8023>>, <<8025,8025>>, <<8027,8027>>,
          <<8029,8029>>, <<8031,8061>>, <<8064,8116>>, <<8118,8124>>,
          <<8126,8126>>, <<8130,8132>>, <<8134,8140>>, <<8144,8147>>,
          <<8150,8155>>, <<8160,8172>>, <<8178,8180>>, <<8182,8188>>,
          <<8450,8450>>, <<8455,8455>>, <<8458,8467>>, <<8469,8469>>,
          <<8473,8477>>, <<8484,8484>>, <<8486,8486>>, <<8488,8488>>,
          <<8490,8493>>, <<8495,8500>>, <<8505,8505>>, <<8508,8511>>,
          <<8517,8521>>, <<8526,8526>>, <<8544,8575>>, <<8579,8580>>,
          <<9398,9449>>, <<11264,11387>>, <<11390,11492>>, <<11499,11502>>,
          <<11506,11507>>, <<11520,11557>>, <<11559,11559>>, <<11565,11565>>,
          <<42560,42605>>, <<42624,42651>>, <<42786,42863>>, <<42865,42887>>,
          <<42891,42894>>, <<42896,42954>>, <<42960,42961>>, <<42963,42963>>,
          <<42965,42969>>, <<42997,42998>>, <<43002,43002>>, <<43824,43866>>,
          <<43872,43880>>, <<43888,43967>>, <<64256,64262>>, <<64275,64279>>,
          <<65313,65338>>, <<65345,65370>>, <<66560,66639>>, <<66736,66771>>,
          <<66776,66811>>, <<66928,66938>>, <<66940,66954>>, <<66956,66962>>,
          <<66964,66965>>, <<66967,66977>>, <<66979,66993>>, <<66995,67001>>,
          <<67003,67004>>, <<68736,68786>>, <<68800,68850>>, <<71840,71903>>,
          <<93760,93823>>, <<119808,119892>>, <<119894,119964>>,
          <<119966,119967>>, <<119970,119970>>, <<119973,119974>>,
          <<119977,119980>>, <<119982,119993>>, <<119995,119995>>,
          <<119997,120003>>, <<120005,120069>>, <<120071,120074>>,
          <<120077,120084>>, <<120086,120092>>, <<120094,120121>>,
          <<120123,120126>>, <<120128,120132>>, <<120134,120134>>,
          <<120138,120144>>, <<120146,120485>>, <<120488,120512>>,
          <<120514,120538>>, <<120540,120570>>, <<120572,120596>>,
          <<120598,120628>>, <<120630,120654>>, <<120656,120686>>,
          <<120688,120712>>, <<120714,120744>>, <<120746,120770>>,
          <<120772,120779>>, <<122624,122633>>, <<122635,122654>>,
          <<125184,125251>>, <<127280,127305>>, <<127312,127337>>,
          <<127344,127369>> } }

\* The capital sigma at s[i] ends a word: a cased letter before it and none
\* after it, case-ignorable characters skipped.
FinalSigma(s, i) ==
    LET before == { j \in 1..(i - 1) : s[j] \notin CaseIgnorable }
        after  == { j \in (i + 1)..Len(s) : s[j] \notin CaseIgnorable }
    IN /\ before # {}
       /\ s[CHOOSE j \in before : \A k \in before : k <= j] \in Cased
       /\ \/ after = {}
          \/ s[CHOOSE j \in after : \A k \in after : j <= k] \notin Cased

\* A comparison that leaves lower() out.
lower_missing(s) == s
\* str.lower()
lower(s) ==
    LET RECURSIVE lower_from(_)
        lower_from(i) ==
            IF i > Len(s) THEN <<>>
            ELSE (IF s[i] = chr(931)
                  THEN (IF FinalSigma(s, i) THEN <<chr(962)>> ELSE <<chr(963)>>)
                  ELSE LowerChar(s[i]))
                 \o lower_from(i + 1)
    IN lower_from(1)

\* str.strip(" "): only blanks are dropped.
strip_spaces_only(s) ==
    IF \A i \in DOMAIN s : s[i] = " " THEN <<>>
    ELSE LET first == CHOOSE i \in DOMAIN s :
                         s[i] # " " /\ \A j \in 1..(i-1) : s[j] = " "
             last  == CHOOSE i \in DOMAIN s :
                         s[i] # " " /\ \A j \in (i+1)..Len(s) : s[j] = " "
         IN SubSeq(s, first, last)
\* str.lstrip(): trailing whitespace stays.
lstrip_only(s) ==
    IF \A i \in DOMAIN s : s[i] \in Whitespace THEN <<>>
    ELSE LET first == CHOOSE i \in DOMAIN s :
                         /\ s[i] \notin Whitespace
                         /\ \A j \in 1..(i-1) : s[j] \in Whitespace
         IN SubSeq(s, first, Len(s))

\* str.strip(): drop leading and trailing whitespace.
strip(s) ==
    IF \A i \in DOMAIN s : s[i] \in Whitespace THEN <<>>
    ELSE LET first == CHOOSE i \in DOMAIN s :
                         /\ s[i] \notin Whitespace
                         /\ \A j \in 1..(i-1) : s[j] \in Whitespace
             last  == CHOOSE i \in DOMAIN s :
                         /\ s[i] \notin Whitespace
                         /\ \A j \in (i+1)..Len(s) : s[j] \in Whitespace
         IN SubSeq(s, first, last)

\* s[i..] begins with the literal lit
StartsAt(s, i, lit) ==
    /\ i >= 1
    /\ i + Len(lit) - 1 <= Len(s)
    /\ \A k \in 1..Len(lit) : s[i + k - 1] = lit[k]

\* Length of the longest run of characters satisfying the class from index i.
RECURSIVE RunLen(_, _, _)
RunLen(s, i, class) ==
    IF i <= Len(s) /\ s[i] \in class THEN 1 + RunLen(s, i + 1, class) ELSE 0

\* The class [A-Z0-9] of the patterns; \d of the patterns is Digits.
UpperOrDigitClass == Range(UpperLetters) \cup AsciiDigits

\* re.search(lit + '([cls]+)', s): the leftmost match, as <<start, group>> with
\* group the greedy run after the literal; None when nothing matches.
SearchLitRun(s, lit, cls) ==
    LET hits == {i \in 1..Len(s) :
                    StartsAt(s, i, lit) /\ RunLen(s, i + Len(lit), cls) > 0}
    IN IF hits = {} THEN None
       ELSE LET i == CHOOSE h \in hits : \A g \in hits : h <= g
                n == RunLen(s, i + Len(lit), cls)
            IN <<i, SubSeq(s, i + Len(lit), i + Len(lit) + n - 1)>>

Lit_advertiser == <<"a","d","v","e","r","t","i","s","e","r","/">>
Lit_AR == <<"A","R">>
Lit_qid == <<"?","i","d","=">>
Lit_aid == <<"&","i","d","=">>

\* re.search(r'[?&]id=([A-Z0-9]+)', url): leftmost of the two spellings.
SearchIdParam(url) ==
    LET q == SearchLitRun(url, Lit_qid, UpperOrDigitClass)
        a == SearchLitRun(url, Lit_aid, UpperOrDigitClass)
    IN IF q = None THEN a
       ELSE IF a = None THEN q
       ELSE IF q[1] < a[1] THEN q ELSE a

\* The three patterns with the AR pattern tried first.
extract_advertiser_id_from_url_ar_first(url) ==
    LET advertiser_id_match == SearchLitRun(url, Lit_advertiser, UpperOrDigitClass)
        ar_match == SearchLitRun(url, Lit_AR, Digits)
        id_param_match == SearchIdParam(url)
    IN IF ar_match # None THEN Lit_AR \o ar_match[2]
       ELSE IF advertiser_id_match # None THEN advertiser_id_match[2]
       ELSE IF id_param_match # None THEN id_param_match[2]
       ELSE None

\* Lines 464-490.
extract_advertiser_id_from_url(url) ==
    LET advertiser_id_match == SearchLitRun(url, Lit_advertiser, UpperOrDigitClass)
        ar_match == SearchLitRun(url, Lit_AR, Digits)
        id_param_match == SearchIdParam(url)
    IN IF advertiser_id_match # None THEN advertiser_id_match[2]
       ELSE IF ar_match # None THEN Lit_AR \o ar_match[2]
       ELSE IF id_param_match # None THEN id_param_match[2]
       ELSE None

\* --------------------------------------------------- the two literal tables

AdidasId == <<"A","R","1","4","0","1","7","3","7","8","2","4","8","7","6",
              "6","2","5","9","2","0","1">>
Adidas == <<"a","d","i","d","a","s">>

\* known_ids = {"adidas": "AR14017378248766259201"}
known_ids_literal == [n \in {Adidas} |-> AdidasId]

\* The table with the digits of the count swapped.
known_video_counts_wrong_count == [i \in {AdidasId} |-> 43]
\* known_video_counts = {"AR14017378248766259201": 34}
known_video_counts_literal == [i \in {AdidasId} |-> 34]

\* A defaultdict in place of the dict: the lookup of a missing key inserts it.
dict_after_lookup_inserting(d, key) ==
    [k \in DOMAIN d \cup {key} |-> IF k \in DOMAIN d THEN d[k] ELSE None]
\* The dict after "key in d" and "d[key]" (lines 140-141, 773-774): a plain
\* dict is not changed by a lookup.
dict_after_lookup(d, key) == d

\* video_count = None (JSON null) of Optional[int]; page scripts return >= 0.
NoneCount == -1

\* ------------------------------------- extract_advertiser_id_from_content

\* re.findall(r'AR\d+|advertiser\/([A-Z0-9]+)', content) from index i: one
\* entry per non-overlapping match, the entry being group 1 of the match,
\* which is the empty string for a match of the first alternative.
RECURSIVE findall_ar_pattern(_, _)
findall_ar_pattern(content, i) ==
    IF i > Len(content) THEN <<>>
    ELSE LET n1 == IF StartsAt(content, i, Lit_AR)
                   THEN RunLen(content, i + Len(Lit_AR), Digits) ELSE 0
             n2 == IF StartsAt(content, i, Lit_advertiser)
                   THEN RunLen(content, i + Len(Lit_advertiser), UpperOrDigitClass)
                   ELSE 0
         IN IF n1 > 0
            THEN <<(<<>>)>> \o findall_ar_pattern(content, i + Len(Lit_AR) + n1)
            ELSE IF n2 > 0
            THEN <<SubSeq(content, i + Len(Lit_advertiser),
                          i + Len(Lit_advertiser) + n2 - 1)>>
                 \o findall_ar_pattern(content, i + Len(Lit_advertiser) + n2)
            ELSE findall_ar_pattern(content, i + 1)

\* [m for m in matches if m ...]: the entries that are non-empty strings.
RECURSIVE NonEmptyEntries(_)
NonEmptyEntries(matches) ==
    IF matches = <<>> THEN <<>>
    ELSE (IF Head(matches) # <<>> THEN <<Head(matches)>> ELSE <<>>)
         \o NonEmptyEntries(Tail(matches))

\* Method 1 of extract_advertiser_id_from_content: the ID it returns for the
\* page content, or None when it falls through to Method 2.
content_method1(content) ==
    LET matches == findall_ar_pattern(content, 1)
        valid_matches == NonEmptyEntries(matches)
        tuple_matches == <<>>
        all_matches == valid_matches \o tuple_matches
    IN IF matches # <<>> /\ all_matches # <<>> THEN all_matches[1] ELSE None

\* Method 2: the first entry of the list the in-page script returned.
content_method2(js_result) ==
    IF Len(js_result) > 0 THEN js_result[1] ELSE None

\* ------------------------------------------------------ what the web can do

HomeUrl == <<"h","t","t","p","s",":","/","/","a","d","s","t","r","a","n","s",
             "p","a","r","e","n","c","y",".","g","o","o","g","l","e",".","c",
             "o","m","/">>

\* page.url of the portal before a search.
PageUrls == { HomeUrl }

\* window.location.href as the portal may report it after a search.
Urls == { HomeUrl,
          HomeUrl \o <<"?","r","e","g","i","o","n","=","a","n","y">>,
          HomeUrl \o Lit_advertiser \o <<"A","R","1","2","?","r","=","U","S">> }

\* page.content() as the portal may return it.
Contents == { <<"<","p",">","n","o","n","e","<","/","p",">">>,
              <<"A","R","5","6"," ">> \o Lit_advertiser \o <<"A","R","1","2","\"">>,
              <<"i","d",":","A","R","5","6">> }

\* potentialIds as the in-page script of Method 2 may return it.
JsResults == { <<>>, << <<"A","R","1","2">> >>, <<AdidasId>> }

\* The element count the in-page script of check_advertiser_videos returns.
VideoCounts == {0, 2}

\* Request bodies: advertiser_name as the client may send it.
Names == { <<>>,
           <<" ","\t",chr(11)>>,
           Adidas,
           <<chr(160),"A","D","I","D","a","s","\n">>,
           <<"n","i","k","e">> }

\* "adidas" in every letter case.
AdidasSpellings ==
    { <<c1, c2, c3, c4, c5, c6>> :
        c1 \in {"a","A"}, c2 \in {"d","D"}, c3 \in {"i","I"},
        c4 \in {"d","D"}, c5 \in {"a","A"}, c6 \in {"s","S"} }

\* Leading and trailing whitespace a client may send around a name.
Pads == { <<>>, <<" ">>, <<"\t","\n">>, <<"\r"," ","\f">>,
          <<chr(11),chr(133),chr(8195)>> }

\* Names that are not "adidas" in any letter case once stripped.
OtherNames == { <<"n","i","k","e">>,
                <<" ","N","i","k","e"," ">>,
                <<"a","d","i","d","a">>,
                <<"A","d"," ","i","d","a","s">>,
                <<"a","d","i","d","a","s","1">>,
                <<chr(11),"n","i","k","e">>,
                <<chr(201),"C","O","L","E",chr(28)>>,
                <<"A","D",chr(304),"D","A","S">>,
                <<chr(8490),"A",chr(931)>> }

\* Request bodies of the single-request runs.
AllNames ==
    Names \cup { <<" ">>, <<"\n","\r","\f","\t"," ">>, <<chr(11)>>,
                 <<chr(12288),chr(8232),chr(31)>> }
          \cup OtherNames
          \cup { l \o n \o t : l \in Pads, n \in AdidasSpellings, t \in Pads }

\* ------------------------------------------------------------------- state

VARIABLES
    pc,                  \* per request: the await the handler is suspended at
    request,             \* per request: AdvertiserRequest.advertiser_name
    advertiser_name,     \* per request: local advertiser_name (stripped)
    advertiser_id,       \* per request: local advertiser_id
    has_videos,          \* per request: local has_videos of the endpoint
    video_count,         \* per request: local video_count of the endpoint
    known_ids,           \* per request: local dict of get_advertiser_id
    known_video_counts,  \* per request: local dict of check_advertiser_videos
    browser,             \* per request: local browser of the running function
    ret,                 \* per request: pending return value / exception
    strategy,            \* per request: strategy of get_advertiser_id running
    attempt,             \* per request: loop variable of the URL polls
    tab_round,           \* per request: loop variable "_" of the Tab loop
    pre_search_url,      \* per request: local pre_search_url
    calls,               \* per request: the functions the endpoint has called
    response,            \* per request: the HTTP response sent
    open_browsers,       \* per caller: browser processes launched, not closed
    drivers,             \* per caller: Playwright drivers started, not stopped
    written,             \* per caller: the screenshot files it has written
    ping_response,       \* last /ping response
    direct_call,         \* a function called on its own: what its operations
                         \* give it, the await it is suspended at (at), its
                         \* locals, and the outcome once it is over
    faults,              \* browser operations that have raised so far
    fault_budget         \* browser operations that may raise in this run

vars == <<pc, request, advertiser_name, advertiser_id, has_videos, video_count,
          known_ids, known_video_counts, browser, ret, strategy, attempt,
          tab_round, pre_search_url, calls, response, open_browsers, drivers, written,
          ping_response, direct_call, faults, fault_budget>>

NoResponse == [status |-> 0]
NoDict == [k \in {} |-> None]
NoRet == [kind |-> "none"]
NoCall == [fn |-> "none"]

InitProgram ==
    /\ pc = [r \in Requests |-> "idle"]
    /\ request = [r \in Requests |-> None]
    /\ advertiser_name = [r \in Requests |-> None]
    /\ advertiser_id = [r \in Requests |-> None]
    /\ has_videos = [r \in Requests |-> FALSE]
    /\ video_count = [r \in Requests |-> NoneCount]
    /\ known_ids = [r \in Requests |-> NoDict]
    /\ known_video_counts = [r \in Requests |-> NoDict]
    /\ browser = [r \in Requests |-> None]
    /\ ret = [r \in Requests |-> NoRet]
    /\ strategy = [r \in Requests |-> 0]
    /\ attempt = [r \in Requests |-> 0]
    /\ tab_round = [r \in Requests |-> 0]
    /\ pre_search_url = [r \in Requests |-> None]
    /\ calls = [r \in Requests |-> <<>>]
    /\ response = [r \in Requests |-> NoResponse]
    /\ open_browsers = [r \in Callers |-> 0]
    /\ drivers = [r \in Callers |-> 0]
    /\ written = [r \in Callers |-> {}]
    /\ ping_response = NoResponse
    /\ faults = 0

\* Two overlapping requests.
Init ==
    /\ InitProgram
    /\ direct_call = NoCall
    /\ fault_budget = MaxConcurrentFaults

\* One request.
InitSingle ==
    /\ InitProgram
    /\ direct_call = NoCall
    /\ fault_budget = MaxFaults

\* ----------------------------------------------------------------- helpers

\* Assignment to a module-level variable: every coroutine sees it.
AssignModuleGlobal(f, r, v) == [q \in DOMAIN f |-> v]
\* Assignment to a local variable of the coroutine serving request r.
AssignLocal(f, r, v) == [f EXCEPT ![r] = v]

\* The endpoint serving request r calls (awaits) function fn.
Called(r, fn) == calls' = AssignLocal(calls, r, Append(calls[r], fn))

\* page.screenshot(path=...) by caller r.
ScreenshotPath(name) == <<"screenshots/", name>>
VideoScreenshotPath(id, suffix) == <<"screenshots/">> \o id \o <<suffix>>
WriteFile(path, r) == written' = AssignLocal(written, r, written[r] \cup {path})

\* range(3) of the two URL polling loops.
PollAttempts == 3
\* range(3) of the Tab loop of Strategy 2.
TabPresses == 3

\* str.splitlines(): the lines of s without their line boundaries, which are
\* "\r\n" and each of the characters of LineBreaks; no empty last line after
\* a final boundary.
splitlines(s) ==
    LET LineBreaks == { chr(n) : n \in {10, 11, 12, 13, 28, 29, 30, 133,
                                        8232, 8233} }
        RECURSIVE From(_)
        From(i) ==
            IF i > Len(s) THEN <<>>
            ELSE LET ends == { j \in i..Len(s) : s[j] \in LineBreaks }
                     eol == IF ends = {} THEN Len(s) + 1
                            ELSE CHOOSE j \in ends : \A k \in ends : j <= k
                     next == IF /\ eol < Len(s)
                                /\ s[eol] = "\r"
                                /\ s[eol + 1] = "\n"
                             THEN eol + 2
                             ELSE eol + 1
                 IN <<SubSeq(s, i, eol - 1)>> \o From(next)
    IN From(1)

\* An awaited browser operation raises / returns normally.
Raises == faults < fault_budget /\ faults' = faults + 1
Returns == UNCHANGED faults

\* raise HTTPException(status_code, detail): FastAPI answers with that status
\* and {"detail": detail}; the handler is over.
RaiseHTTPException(r, status_code, detail) ==
    /\ response' = AssignLocal(response, r,
                       [status |-> status_code, detail |-> detail])
    /\ pc' = AssignLocal(pc, r, "done")

Detail400 == <<"Advertiser", "name", "cannot", "be", "empty">>
Detail404(name) == <<"No", "advertiser", "ID", "found", "for", "'">> \o name \o <<"'">>
Detail500(text) == <<"Error", "during", "scraping:">> \o text

\* str(e) of an HTTPException raised with keyword arguments, as the
\* installed Starlette gives it: "<status_code>: <detail>" where
\* HTTPException defines __str__, the empty string where it does not (the
\* exception then has no args).  The repository pins no version.
StrHTTPException(status_text, detail) == { <<status_text>> \o detail, <<>> }
\* str(e) of a Playwright error.
StrError(kind) == <<kind>>

\* No handler in the endpoint: FastAPI answers an unhandled exception with a
\* bare 500.
EndpointExceptAbsent(r, text) ==
    RaiseHTTPException(r, 500, <<"Internal", "Server", "Error">>)
\* except Exception as e (lines 117-124) of the endpoint.
EndpointExcept(r, text) == RaiseHTTPException(r, 500, Detail500(text))

ReturnValue(v) == [kind |-> "return", value |-> v]
ReturnVideos(h, c) == [kind |-> "return", has_videos |-> h, video_count |-> c]

procs == <<browser, open_browsers, drivers>>
tables == <<known_ids, known_video_counts>>
videos == <<has_videos, video_count>>
polling == <<strategy, attempt, tab_round, pre_search_url>>
reqvars == <<request, advertiser_name>>
envvars == <<ping_response, fault_budget>>

\* ------------------------------------------------------------------- /ping

Timestamps == {"2025-01-01T00:00:00"}

\* Lines 74-83.
ping ==
    /\ \E now \in Timestamps :
         ping_response' = [status |-> 200,
                           body |-> [status |-> "ok", timestamp |-> now,
                                     version |-> "1.0.0"]]
    /\ UNCHANGED <<pc, advertiser_id, ret, calls, response, written, faults,
                   fault_budget, procs, tables, videos, polling, reqvars, direct_call>>

\* ----------------------------------------------------------------- /scrape

\* Lines 86-101: strip the name, reject an empty one, call get_advertiser_id.
scrape_advertiser_endpoint(r, name) ==
    /\ pc[r] = "idle"
    /\ \A q \in Requests : q < r => pc[q] # "idle"
    /\ request' = AssignLocal(request, r, name)
    /\ advertiser_name' = AssignLocal(advertiser_name, r, strip(name))
    /\ IF strip(name) = <<>>
       THEN /\ RaiseHTTPException(r, 400, Detail400)
            /\ UNCHANGED calls
       ELSE /\ pc' = AssignLocal(pc, r, "gid_lookup")
            /\ Called(r, "get_advertiser_id")
            /\ UNCHANGED response
    /\ UNCHANGED <<advertiser_id, ret, written, faults, procs, tables, videos,
                   polling, direct_call, envvars>>

\* Lines 131-145 of get_advertiser_id: the table of known IDs.
gid_lookup(r) ==
    /\ pc[r] = "gid_lookup"
    /\ known_ids' = AssignLocal(known_ids, r,
           dict_after_lookup(known_ids_literal, lower(advertiser_name[r])))
    /\ IF lower(advertiser_name[r]) \in DOMAIN known_ids_literal
       THEN /\ advertiser_id' = AssignLocal(advertiser_id, r,
                                    known_ids_literal[lower(advertiser_name[r])])
            /\ pc' = AssignLocal(pc, r, "check_id")
            /\ UNCHANGED browser
       ELSE /\ browser' = AssignLocal(browser, r, None)
            /\ pc' = AssignLocal(pc, r, "gid_start")
            /\ UNCHANGED advertiser_id
    /\ UNCHANGED <<ret, calls, response, written, faults, open_browsers, drivers,
                   known_video_counts, videos, polling, reqvars, direct_call, envvars>>

\* An operation raised and except Exception (lines 370-374) caught it:
\* return None, through the finally.
GidOuterExcept(r) ==
    /\ Raises
    /\ ret' = AssignLocal(ret, r, ReturnValue(None))
    /\ pc' = AssignLocal(pc, r, "gid_finally")

\* A return outside the try block: the finally clause is not run.
GidReturnSkippingFinally(r, v) ==
    /\ ret' = AssignLocal(ret, r, ReturnValue(v))
    /\ pc' = AssignLocal(pc, r, "check_id")
\* return advertiser_id inside the try (lines 229, 297, 350, 363-368).
GidReturn(r, v) ==
    /\ ret' = AssignLocal(ret, r, ReturnValue(v))
    /\ pc' = AssignLocal(pc, r, "gid_finally")

\* Line 147: playwright_instance = await async_playwright().start()
gid_start_playwright(r) ==
    /\ pc[r] = "gid_start"
    /\ \/ /\ Returns
          /\ drivers' = AssignLocal(drivers, r, drivers[r] + 1)
          /\ pc' = AssignLocal(pc, r, "gid_launch")
          /\ UNCHANGED ret
       \/ /\ GidOuterExcept(r)
          /\ UNCHANGED drivers
    /\ UNCHANGED <<advertiser_id, calls, response, written, browser, open_browsers,
                   tables, videos, polling, reqvars, direct_call, envvars>>

\* Line 148: browser = await playwright_instance.chromium.launch(headless=True)
gid_launch(r) ==
    /\ pc[r] = "gid_launch"
    /\ \/ /\ Returns
          /\ browser' = AssignLocal(browser, r, <<"Browser">>)
          /\ open_browsers' = AssignLocal(open_browsers, r, open_browsers[r] + 1)
          /\ pc' = AssignLocal(pc, r, "gid_new_context")
          /\ UNCHANGED ret
       \/ /\ GidOuterExcept(r)
          /\ UNCHANGED <<browser, open_browsers>>
    /\ UNCHANGED <<advertiser_id, calls, response, written, drivers,
                   tables, videos, polling, reqvars, direct_call, envvars>>

\* Line 151: context = await browser.new_context(...)
gid_new_context(r) ==
    /\ pc[r] = "gid_new_context"
    /\ \/ /\ Returns
          /\ pc' = AssignLocal(pc, r, "gid_new_page")
          /\ UNCHANGED ret
       \/ GidOuterExcept(r)
    /\ UNCHANGED <<advertiser_id, calls, response, written, procs, tables,
                   videos, polling, reqvars, direct_call, envvars>>

\* Line 159: page = await context.new_page()
gid_new_page(r) ==
    /\ pc[r] = "gid_new_page"
    /\ \/ /\ Returns
          /\ pc' = AssignLocal(pc, r, "gid_goto")
          /\ UNCHANGED ret
       \/ GidOuterExcept(r)
    /\ UNCHANGED <<advertiser_id, calls, response, written, procs, tables,
                   videos, polling, reqvars, direct_call, envvars>>

\* Line 163: await page.goto(the portal)
gid_goto(r) ==
    /\ pc[r] = "gid_goto"
    /\ \/ /\ Returns
          /\ pc' = AssignLocal(pc, r, "gid_shot_initial")
          /\ UNCHANGED ret
       \/ GidOuterExcept(r)
    /\ UNCHANGED <<advertiser_id, calls, response, written, procs, tables,
                   videos, polling, reqvars, direct_call, envvars>>

\* Lines 164-172: screenshot of the initial page; advertiser_id = None;
\* Strategy 1 begins.
gid_screenshot_initial(r) ==
    /\ pc[r] = "gid_shot_initial"
    /\ \/ /\ Returns
          /\ WriteFile(ScreenshotPath("initial_page.png"), r)
          /\ advertiser_id' = AssignLocal(advertiser_id, r, None)
          /\ strategy' = AssignLocal(strategy, r, 1)
          /\ UNCHANGED calls
          /\ pc' = AssignLocal(pc, r, "s1_wait_load")
          /\ UNCHANGED ret
       \/ /\ GidOuterExcept(r)
          /\ UNCHANGED <<written, advertiser_id, strategy, calls>>
    /\ UNCHANGED <<response, procs, tables, videos, attempt, tab_round,
                   pre_search_url, reqvars, direct_call, envvars>>

\* ------------------------------------------- get_advertiser_id: Strategy 1

\* An operation of Strategy 1 raised and except Exception (lines 308-310)
\* caught it: on to the error screenshot.
S1Except(r) ==
    /\ Raises
    /\ pc' = AssignLocal(pc, r, "s1_error_shot")

\* Line 313 after Strategy 1, lines 363-368 after Strategy 2: a strategy of
\* request r ended with advertiser_id = v.
StrategyEnded(r, v) ==
    IF strategy[r] = 1 /\ v = None
    THEN /\ strategy' = AssignLocal(strategy, r, 2)
         /\ UNCHANGED calls
         /\ pc' = AssignLocal(pc, r, "s2_goto")
         /\ UNCHANGED ret
    ELSE /\ GidReturn(r, v)
         /\ UNCHANGED <<strategy, calls>>

\* Lines 304-305, 357-358: call extract_advertiser_id_from_content.
CallExtractFromContent(r) ==
    /\ UNCHANGED calls
    /\ pc' = AssignLocal(pc, r, "efc_shot")

\* Line 174: await page.wait_for_load_state("domcontentloaded")
s1_wait_for_load_state(r) ==
    /\ pc[r] = "s1_wait_load"
    /\ \/ /\ Returns
          /\ pc' = AssignLocal(pc, r, "s1_wait_selector")
       \/ S1Except(r)
    /\ UNCHANGED <<advertiser_id, ret, calls, response, written, procs, tables,
                   videos, polling, reqvars, direct_call, envvars>>

\* Line 175: await page.wait_for_selector(the search input)
s1_wait_for_selector(r) ==
    /\ pc[r] = "s1_wait_selector"
    /\ \/ /\ Returns
          /\ pc' = AssignLocal(pc, r, "s1_query")
       \/ S1Except(r)
    /\ UNCHANGED <<advertiser_id, ret, calls, response, written, procs, tables,
                   videos, polling, reqvars, direct_call, envvars>>

\* Lines 177-178, 306-307: search_input = await page.query_selector(...)
s1_query_selector(r) ==
    /\ pc[r] = "s1_query"
    /\ \/ \* the input is there
          /\ Returns
          /\ pc' = AssignLocal(pc, r, "s1_click_input")
          /\ UNCHANGED <<ret, strategy, calls>>
       \/ \* query_selector returned None: the else branch of line 306
          /\ Returns
          /\ StrategyEnded(r, advertiser_id[r])
       \/ /\ S1Except(r)
          /\ UNCHANGED <<ret, strategy, calls>>
    /\ UNCHANGED <<advertiser_id, response, written, procs, tables, videos,
                   attempt, tab_round, pre_search_url, reqvars, direct_call,
                   envvars>>

\* Line 180: await search_input.click()
s1_click_input(r) ==
    /\ pc[r] = "s1_click_input"
    /\ \/ /\ Returns
          /\ pc' = AssignLocal(pc, r, "s1_wait_focus")
       \/ S1Except(r)
    /\ UNCHANGED <<advertiser_id, ret, calls, response, written, procs, tables,
                   videos, polling, reqvars, direct_call, envvars>>

\* Line 181: await page.wait_for_timeout(500)
s1_wait_after_click(r) ==
    /\ pc[r] = "s1_wait_focus"
    /\ \/ /\ Returns
          /\ pc' = AssignLocal(pc, r, "s1_clear")
       \/ S1Except(r)
    /\ UNCHANGED <<advertiser_id, ret, calls, response, written, procs, tables,
                   videos, polling, reqvars, direct_call, envvars>>

\* Line 184: await search_input.fill("")
s1_clear_input(r) ==
    /\ pc[r] = "s1_clear"
    /\ \/ /\ Returns
          /\ pc' = AssignLocal(pc, r, "s1_wait_clear")
       \/ S1Except(r)
    /\ UNCHANGED <<advertiser_id, ret, calls, response, written, procs, tables,
                   videos, polling, reqvars, direct_call, envvars>>

\* Line 185: await page.wait_for_timeout(300)
s1_wait_after_clear(r) ==
    /\ pc[r] = "s1_wait_clear"
    /\ \/ /\ Returns
          /\ pc' = AssignLocal(pc, r, "s1_fill")
       \/ S1Except(r)
    /\ UNCHANGED <<advertiser_id, ret, calls, response, written, procs, tables,
                   videos, polling, reqvars, direct_call, envvars>>

\* Line 188: await search_input.fill(advertiser_name)
s1_fill_name(r) ==
    /\ pc[r] = "s1_fill"
    /\ \/ /\ Returns
          /\ pc' = AssignLocal(pc, r, "s1_shot_before")
       \/ S1Except(r)
    /\ UNCHANGED <<advertiser_id, ret, calls, response, written, procs, tables,
                   videos, polling, reqvars, direct_call, envvars>>

\* Lines 192-196: screenshot, then pre_search_url = page.url
s1_screenshot_before(r) ==
    /\ pc[r] = "s1_shot_before"
    /\ \/ /\ Returns
          /\ WriteFile(ScreenshotPath("before_search.png"), r)
          /\ \E u \in PageUrls :
               pre_search_url' = AssignLocal(pre_search_url, r, u)
          /\ pc' = AssignLocal(pc, r, "s1_enter")
       \/ /\ S1Except(r)
          /\ UNCHANGED <<written, pre_search_url>>
    /\ UNCHANGED <<advertiser_id, ret, calls, response, procs, tables, videos,
                   strategy, attempt, tab_round, reqvars, direct_call, envvars>>

\* Line 199: await search_input.press("Enter")
s1_press_enter(r) ==
    /\ pc[r] = "s1_enter"
    /\ \/ /\ Returns
          /\ pc' = AssignLocal(pc, r, "s1_wait_enter")
       \/ S1Except(r)
    /\ UNCHANGED <<advertiser_id, ret, calls, response, written, procs, tables,
                   videos, polling, reqvars, direct_call, envvars>>

\* Line 203: await page.wait_for_timeout(2000)
s1_wait_after_enter(r) ==
    /\ pc[r] = "s1_wait_enter"
    /\ \/ /\ Returns
          /\ pc' = AssignLocal(pc, r, "s1_wait_dom")
       \/ S1Except(r)
    /\ UNCHANGED <<advertiser_id, ret, calls, response, written, procs, tables,
                   videos, polling, reqvars, direct_call, envvars>>

\* Lines 206-210: await page.wait_for_load_state(...); its TimeoutError is
\* caught at line 209, any other exception is not.
s1_wait_for_dom(r) ==
    /\ pc[r] = "s1_wait_dom"
    /\ \/ /\ Returns
          /\ pc' = AssignLocal(pc, r, "s1_shot_after")
       \/ \* TimeoutError, caught at line 209
          /\ Raises
          /\ pc' = AssignLocal(pc, r, "s1_shot_after")
       \/ S1Except(r)
    /\ UNCHANGED <<advertiser_id, ret, calls, response, written, procs, tables,
                   videos, polling, reqvars, direct_call, envvars>>

\* Lines 213-216: screenshot, then the polling loop starts at attempt 0.
s1_screenshot_after(r) ==
    /\ pc[r] = "s1_shot_after"
    /\ \/ /\ Returns
          /\ WriteFile(ScreenshotPath("after_search.png"), r)
          /\ attempt' = AssignLocal(attempt, r, 0)
          /\ pc' = AssignLocal(pc, r, "s1_poll")
       \/ /\ S1Except(r)
          /\ UNCHANGED <<written, attempt>>
    /\ UNCHANGED <<advertiser_id, ret, calls, response, procs, tables, videos,
                   strategy, tab_round, pre_search_url, reqvars, direct_call,
                   envvars>>

\* "while True" in place of "for attempt in range(3)": the loop is left only
\* by a return, a break or an exception.
NextAttemptUnbounded(r, again, after) ==
    /\ attempt' = AssignLocal(attempt, r, attempt[r] + 1)
    /\ pc' = AssignLocal(pc, r, again)

\* The loop header "for attempt in range(3)" after an iteration that did
\* not leave the loop: the next iteration at pc = again, or pc = after when
\* the range is exhausted (attempt keeps its last value).
NextAttempt(r, again, after) ==
    IF attempt[r] + 1 < PollAttempts
    THEN /\ attempt' = AssignLocal(attempt, r, attempt[r] + 1)
         /\ pc' = AssignLocal(pc, r, again)
    ELSE /\ pc' = AssignLocal(pc, r, after)
         /\ UNCHANGED attempt

\* Lines 218-234: current_url = await page.evaluate("window.location.href")
\* in the polling loop of Strategy 1.
s1_poll_url(r) ==
    /\ pc[r] = "s1_poll"
    /\ \/ \E current_url \in Urls :
            /\ Returns
            /\ IF current_url # <<>> /\ current_url # pre_search_url[r]
               THEN /\ advertiser_id' = AssignLocal(advertiser_id, r,
                                       extract_advertiser_id_from_url(current_url))
                    /\ IF extract_advertiser_id_from_url(current_url) # None
                       THEN GidReturn(r, extract_advertiser_id_from_url(current_url))
                       ELSE \* break (line 232)
                            /\ pc' = AssignLocal(pc, r, "s1_shot_results")
                            /\ UNCHANGED ret
               ELSE /\ pc' = AssignLocal(pc, r, "s1_poll_wait")
                    /\ UNCHANGED <<advertiser_id, ret>>
       \/ \* page.evaluate raised Error: caught at line 233
          /\ Raises
          /\ pc' = AssignLocal(pc, r, "s1_poll_wait")
          /\ UNCHANGED <<advertiser_id, ret>>
       \/ \* page.evaluate raised another exception
          /\ S1Except(r)
          /\ UNCHANGED <<advertiser_id, ret>>
    /\ UNCHANGED <<calls, response, written, procs, tables, videos, polling,
                   reqvars, direct_call, envvars>>

\* Lines 216, 237: await page.wait_for_timeout(2000), then the loop header.
s1_poll_wait(r) ==
    /\ pc[r] = "s1_poll_wait"
    /\ \/ /\ Returns
          /\ NextAttempt(r, "s1_poll", "s1_shot_results")
       \/ /\ S1Except(r)
          /\ UNCHANGED attempt
    /\ UNCHANGED <<advertiser_id, ret, calls, response, written, procs, tables,
                   videos, strategy, tab_round, pre_search_url, reqvars,
                   direct_call, envvars>>

\* Line 241: screenshot before clicking the results.
s1_screenshot_results(r) ==
    /\ pc[r] = "s1_shot_results"
    /\ \/ /\ Returns
          /\ WriteFile(ScreenshotPath("before_clicking_results.png"), r)
          /\ pc' = AssignLocal(pc, r, "s1_click")
       \/ /\ S1Except(r)
          /\ UNCHANGED written
    /\ UNCHANGED <<advertiser_id, ret, calls, response, procs, tables, videos,
                   polling, reqvars, direct_call, envvars>>

\* Lines 244-282, 300-305: clicked = await page.evaluate(the script that
\* clicks the first search result).
s1_click_result(r) ==
    /\ pc[r] = "s1_click"
    /\ \/ \* clicked = True
          /\ Returns
          /\ pc' = AssignLocal(pc, r, "s1_click_wait")
          /\ UNCHANGED calls
       \/ \* clicked = False
          /\ Returns
          /\ CallExtractFromContent(r)
       \/ \* page.evaluate raised Error: caught at line 300
          /\ Raises
          /\ CallExtractFromContent(r)
       \/ \* page.evaluate raised another exception
          /\ S1Except(r)
          /\ UNCHANGED calls
    /\ UNCHANGED <<advertiser_id, ret, response, written, procs, tables,
                   videos, polling, reqvars, direct_call, envvars>>

\* Lines 286, 300-305: await page.wait_for_timeout(3000) after the click.
s1_wait_after_result_click(r) ==
    /\ pc[r] = "s1_click_wait"
    /\ \/ /\ Returns
          /\ pc' = AssignLocal(pc, r, "s1_click_url")
          /\ UNCHANGED calls
       \/ \* wait_for_timeout raised Error: caught at line 300
          /\ Raises
          /\ CallExtractFromContent(r)
       \/ \* wait_for_timeout raised another exception
          /\ S1Except(r)
          /\ UNCHANGED calls
    /\ UNCHANGED <<advertiser_id, ret, response, written, procs, tables,
                   videos, polling, reqvars, direct_call, envvars>>

\* Lines 289-305: current_url = await page.evaluate("window.location.href")
\* after the click; extract the ID from it.
s1_url_after_click(r) ==
    /\ pc[r] = "s1_click_url"
    /\ \/ \E current_url \in Urls :
            /\ Returns
            /\ advertiser_id' = AssignLocal(advertiser_id, r,
                                    extract_advertiser_id_from_url(current_url))
            /\ IF extract_advertiser_id_from_url(current_url) # None
               THEN /\ GidReturn(r, extract_advertiser_id_from_url(current_url))
                    /\ UNCHANGED calls
               ELSE /\ CallExtractFromContent(r)
                    /\ UNCHANGED ret
       \/ \* page.evaluate raised Error: caught at line 298
          /\ Raises
          /\ CallExtractFromContent(r)
          /\ UNCHANGED <<advertiser_id, ret>>
       \/ \* page.evaluate raised another exception
          /\ S1Except(r)
          /\ UNCHANGED <<advertiser_id, ret, calls>>
    /\ UNCHANGED <<response, written, procs, tables, videos, polling, reqvars,
                   direct_call, envvars>>

\* The screenshot of line 310 raised inside the except clause of Strategy 1,
\* or that of line 361 inside the except clause of Strategy 2: the outer
\* handler (lines 370-374) catches it.
ErrorScreenshotRaised(r) == GidOuterExcept(r)

\* Lines 308-313: screenshot of the Strategy 1 error.
s1_error_screenshot(r) ==
    /\ pc[r] = "s1_error_shot"
    /\ \/ /\ Returns
          /\ WriteFile(ScreenshotPath("strategy1_error.png"), r)
          /\ StrategyEnded(r, advertiser_id[r])
       \/ /\ ErrorScreenshotRaised(r)
          /\ UNCHANGED <<written, strategy, calls>>
    /\ UNCHANGED <<advertiser_id, response, procs, tables, videos, attempt,
                   tab_round, pre_search_url, reqvars, direct_call, envvars>>

\* ------------------------------------- extract_advertiser_id_from_content

\* An exception leaving extract_advertiser_id_from_content lands in the
\* except clause of the strategy that called it (lines 308, 359).
StrategyExcept(r) ==
    /\ Raises
    /\ pc' = AssignLocal(pc, r, IF strategy[r] = 1 THEN "s1_error_shot"
                                                  ELSE "s2_error_shot")

\* extract_advertiser_id_from_content returned v: lines 305, 358 assign it.
ExtractReturned(r, v) ==
    /\ advertiser_id' = AssignLocal(advertiser_id, r, v)
    /\ StrategyEnded(r, v)

\* Line 383: the screenshot taken before the try block.
efc_screenshot(r) ==
    /\ pc[r] = "efc_shot"
    /\ \/ /\ Returns
          /\ WriteFile(ScreenshotPath("page_content.png"), r)
          /\ pc' = AssignLocal(pc, r, "efc_content")
       \/ /\ StrategyExcept(r)
          /\ UNCHANGED written
    /\ UNCHANGED <<advertiser_id, ret, calls, response, procs, tables, videos,
                   polling, reqvars, direct_call, envvars>>

\* Lines 387-404, 458-461: page.content() and Method 1.
efc_method1(r) ==
    /\ pc[r] = "efc_content"
    /\ \/ \E content \in Contents :
            /\ Returns
            /\ IF content_method1(content) # None
               THEN ExtractReturned(r, content_method1(content))
               ELSE /\ pc' = AssignLocal(pc, r, "efc_js")
                    /\ UNCHANGED <<advertiser_id, ret, strategy, calls>>
       \/ \* page.content() raised: caught at line 458, return None
          /\ Raises
          /\ ExtractReturned(r, None)
    /\ UNCHANGED <<response, written, procs, tables, videos, attempt,
                   tab_round, pre_search_url, reqvars, direct_call, envvars>>

\* Lines 406-461: Method 2, the in-page script.
efc_method2(r) ==
    /\ pc[r] = "efc_js"
    /\ \/ \E js_result \in JsResults :
            /\ Returns
            /\ ExtractReturned(r, content_method2(js_result))
       \/ \* page.evaluate raised: caught at line 455, return None
          /\ Raises
          /\ ExtractReturned(r, None)
    /\ UNCHANGED <<response, written, procs, tables, videos, attempt,
                   tab_round, pre_search_url, reqvars, direct_call, envvars>>

\* ------------------------------------------- get_advertiser_id: Strategy 2

\* An operation of Strategy 2 raised and except Exception (lines 359-361)
\* caught it: on to the error screenshot.
S2Except(r) ==
    /\ Raises
    /\ pc' = AssignLocal(pc, r, "s2_error_shot")

\* Line 317: await page.goto(the portal)
s2_goto(r) ==
    /\ pc[r] = "s2_goto"
    /\ \/ /\ Returns
          /\ pc' = AssignLocal(pc, r, "s2_wait_load")
       \/ S2Except(r)
    /\ UNCHANGED <<advertiser_id, ret, calls, response, written, procs, tables,
                   videos, polling, reqvars, direct_call, envvars>>

\* Line 318: await page.wait_for_load_state("domcontentloaded")
s2_wait_for_load_state(r) ==
    /\ pc[r] = "s2_wait_load"
    /\ \/ /\ Returns
          /\ pc' = AssignLocal(pc, r, "s2_click_body")
       \/ S2Except(r)
    /\ UNCHANGED <<advertiser_id, ret, calls, response, written, procs, tables,
                   videos, polling, reqvars, direct_call, envvars>>

\* Lines 321-324: await page.click('body'), then the Tab loop starts.
s2_click_body(r) ==
    /\ pc[r] = "s2_click_body"
    /\ \/ /\ Returns
          /\ tab_round' = AssignLocal(tab_round, r, 0)
          /\ pc' = AssignLocal(pc, r, "s2_tab")
       \/ /\ S2Except(r)
          /\ UNCHANGED tab_round
    /\ UNCHANGED <<advertiser_id, ret, calls, response, written, procs, tables,
                   videos, strategy, attempt, pre_search_url, reqvars,
                   direct_call, envvars>>

\* Line 325: await page.keyboard.press('Tab')
s2_press_tab(r) ==
    /\ pc[r] = "s2_tab"
    /\ \/ /\ Returns
          /\ pc' = AssignLocal(pc, r, "s2_tab_wait")
       \/ S2Except(r)
    /\ UNCHANGED <<advertiser_id, ret, calls, response, written, procs, tables,
                   videos, polling, reqvars, direct_call, envvars>>

\* Lines 324, 326: await page.wait_for_timeout(300), then the loop header
\* "for _ in range(3)".
s2_wait_after_tab(r) ==
    /\ pc[r] = "s2_tab_wait"
    /\ \/ /\ Returns
          /\ IF tab_round[r] + 1 < TabPresses
             THEN /\ tab_round' = AssignLocal(tab_round, r, tab_round[r] + 1)
                  /\ pc' = AssignLocal(pc, r, "s2_tab")
             ELSE /\ pc' = AssignLocal(pc, r, "s2_type")
                  /\ UNCHANGED tab_round
       \/ /\ S2Except(r)
          /\ UNCHANGED tab_round
    /\ UNCHANGED <<advertiser_id, ret, calls, response, written, procs, tables,
                   videos, strategy, attempt, pre_search_url, reqvars,
                   direct_call, envvars>>

\* Line 329: await page.keyboard.type(advertiser_name)
s2_type_name(r) ==
    /\ pc[r] = "s2_type"
    /\ \/ /\ Returns
          /\ pc' = AssignLocal(pc, r, "s2_read_url")
       \/ S2Except(r)
    /\ UNCHANGED <<advertiser_id, ret, calls, response, written, procs, tables,
                   videos, polling, reqvars, direct_call, envvars>>

\* Line 333: pre_search_url = await page.evaluate("window.location.href")
s2_read_url(r) ==
    /\ pc[r] = "s2_read_url"
    /\ \/ /\ Returns
          /\ \E u \in PageUrls :
               pre_search_url' = AssignLocal(pre_search_url, r, u)
          /\ pc' = AssignLocal(pc, r, "s2_enter")
       \/ /\ S2Except(r)
          /\ UNCHANGED pre_search_url
    /\ UNCHANGED <<advertiser_id, ret, calls, response, written, procs, tables,
                   videos, strategy, attempt, tab_round, reqvars, direct_call,
                   envvars>>

\* Line 334: await page.keyboard.press("Enter")
s2_press_enter(r) ==
    /\ pc[r] = "s2_enter"
    /\ \/ /\ Returns
          /\ pc' = AssignLocal(pc, r, "s2_wait_enter")
       \/ S2Except(r)
    /\ UNCHANGED <<advertiser_id, ret, calls, response, written, procs, tables,
                   videos, polling, reqvars, direct_call, envvars>>

\* Lines 338-341: await page.wait_for_timeout(3000), then the polling loop
\* starts at attempt 0.
s2_wait_after_enter(r) ==
    /\ pc[r] = "s2_wait_enter"
    /\ \/ /\ Returns
          /\ attempt' = AssignLocal(attempt, r, 0)
          /\ pc' = AssignLocal(pc, r, "s2_poll")
       \/ /\ S2Except(r)
          /\ UNCHANGED attempt
    /\ UNCHANGED <<advertiser_id, ret, calls, response, written, procs, tables,
                   videos, strategy, tab_round, pre_search_url, reqvars,
                   direct_call, envvars>>

\* The loop header of Strategy 2 after an iteration that did not return:
\* the next iteration, or lines 356-358 when the range is exhausted.
S2NextAttempt(r) ==
    /\ NextAttempt(r, "s2_poll", "efc_shot")
    /\ UNCHANGED calls

\* Lines 342-352: current_url = await page.evaluate("window.location.href")
\* in the polling loop of Strategy 2.
s2_poll_url(r) ==
    /\ pc[r] = "s2_poll"
    /\ \/ \E current_url \in Urls :
            /\ Returns
            /\ IF current_url # <<>> /\ current_url # pre_search_url[r]
               THEN /\ advertiser_id' = AssignLocal(advertiser_id, r,
                                       extract_advertiser_id_from_url(current_url))
                    /\ IF extract_advertiser_id_from_url(current_url) # None
                       THEN GidReturn(r, extract_advertiser_id_from_url(current_url))
                       ELSE /\ pc' = AssignLocal(pc, r, "s2_poll_wait")
                            /\ UNCHANGED ret
               ELSE /\ pc' = AssignLocal(pc, r, "s2_poll_wait")
                    /\ UNCHANGED <<advertiser_id, ret>>
       \/ \* page.evaluate raised Error: caught at line 351
          /\ Raises
          /\ pc' = AssignLocal(pc, r, "s2_poll_wait")
          /\ UNCHANGED <<advertiser_id, ret>>
       \/ \* page.evaluate raised another exception
          /\ S2Except(r)
          /\ UNCHANGED <<advertiser_id, ret>>
    /\ UNCHANGED <<calls, response, written, procs, tables, videos, polling,
                   reqvars, direct_call, envvars>>

\* Lines 341, 354-358: await page.wait_for_timeout(2000), then the loop
\* header.
s2_poll_wait(r) ==
    /\ pc[r] = "s2_poll_wait"
    /\ \/ /\ Returns
          /\ S2NextAttempt(r)
       \/ /\ S2Except(r)
          /\ UNCHANGED <<attempt, calls>>
    /\ UNCHANGED <<advertiser_id, ret, response, written, procs, tables,
                   videos, strategy, tab_round, pre_search_url, reqvars,
                   direct_call, envvars>>

\* Lines 359-368: screenshot of the Strategy 2 error, then the final return.
s2_error_screenshot(r) ==
    /\ pc[r] = "s2_error_shot"
    /\ \/ /\ Returns
          /\ WriteFile(ScreenshotPath("strategy2_error.png"), r)
          /\ GidReturn(r, advertiser_id[r])
       \/ /\ ErrorScreenshotRaised(r)
          /\ UNCHANGED written
    /\ UNCHANGED <<advertiser_id, calls, response, procs, tables, videos,
                   polling, reqvars, direct_call, envvars>>

\* ---------------------------------- get_advertiser_id: finally and return

\* await browser.close() raised: the browser process may or may not be gone.
CloseFailed(r) ==
    /\ Raises
    /\ \E left \in {open_browsers[r], open_browsers[r] - 1} :
         open_browsers' = AssignLocal(open_browsers, r, left)

\* A finally clause without browser.close(): the session stays open.
CloseSkipped(r) ==
    /\ Returns
    /\ UNCHANGED open_browsers
\* await browser.close() returned: the session is closed.
CloseSucceeded(r) ==
    /\ Returns
    /\ open_browsers' = AssignLocal(open_browsers, r, open_browsers[r] - 1)

\* The frame of get_advertiser_id is gone: its locals with it.
GidFrameDropped(r) ==
    /\ browser' = AssignLocal(browser, r, None)
    /\ strategy' = AssignLocal(strategy, r, 0)
    /\ attempt' = AssignLocal(attempt, r, 0)
    /\ tab_round' = AssignLocal(tab_round, r, 0)
    /\ pre_search_url' = AssignLocal(pre_search_url, r, None)
    /\ ret' = AssignLocal(ret, r, NoRet)

\* Lines 375-377 and the return to line 101: close the browser if one was
\* launched; the pending return value reaches the endpoint unless close()
\* raises, and then the exception reaches the endpoint's handler instead.
gid_finally(r) ==
    /\ pc[r] = "gid_finally"
    /\ GidFrameDropped(r)
    /\ \/ /\ browser[r] = None
          /\ Returns
          /\ advertiser_id' = AssignLocal(advertiser_id, r, ret[r].value)
          /\ pc' = AssignLocal(pc, r, "check_id")
          /\ UNCHANGED <<open_browsers, response>>
       \/ /\ browser[r] # None
          /\ CloseSucceeded(r)
          /\ advertiser_id' = AssignLocal(advertiser_id, r, ret[r].value)
          /\ pc' = AssignLocal(pc, r, "check_id")
          /\ UNCHANGED response
       \/ /\ browser[r] # None
          /\ CloseFailed(r)
          /\ EndpointExcept(r, StrError("Error"))
          /\ advertiser_id' = AssignLocal(advertiser_id, r, None)
    /\ UNCHANGED <<calls, written, drivers, tables, videos, reqvars, direct_call, envvars>>

\* --------------------------------------------- /scrape after the ID lookup

\* The endpoint without lines 103-107: check_advertiser_videos is called
\* with whatever get_advertiser_id returned.
endpoint_check_id_unguarded(r) ==
    /\ pc[r] = "check_id"
    /\ pc' = AssignLocal(pc, r, "cav_lookup")
    /\ Called(r, "check_advertiser_videos")
    /\ UNCHANGED <<response, advertiser_id, ret, written, faults, procs, tables,
                   videos, polling, reqvars, direct_call, envvars>>

\* Lines 103-110 with the handler of lines 117-124: no ID raises
\* HTTPException(404) inside the try block, and "except Exception" catches
\* it (HTTPException is an Exception) and raises HTTPException(500) in its
\* place; with an ID, check_advertiser_videos is called.
endpoint_check_id(r) ==
    /\ pc[r] = "check_id"
    /\ IF advertiser_id[r] = None \/ advertiser_id[r] = <<>>
       THEN /\ \E text \in StrHTTPException("404:",
                                          Detail404(advertiser_name[r])) :
                 EndpointExcept(r, text)
            /\ UNCHANGED calls
       ELSE /\ pc' = AssignLocal(pc, r, "cav_lookup")
            /\ Called(r, "check_advertiser_videos")
            /\ UNCHANGED response
    /\ UNCHANGED <<advertiser_id, ret, written, faults, procs, tables, videos,
                   polling, reqvars, direct_call, envvars>>

\* Lines 112-116: the 200 response.
endpoint_respond(r) ==
    /\ pc[r] = "respond"
    /\ response' = AssignLocal(response, r,
           [status |-> 200,
            body |-> [advertiser_google_id |-> advertiser_id[r],
                      has_videos |-> has_videos[r],
                      video_count |-> video_count[r]]])
    /\ pc' = AssignLocal(pc, r, "done")
    /\ UNCHANGED <<advertiser_id, ret, calls, written, faults, procs, tables,
                   videos, polling, reqvars, direct_call, envvars>>

\* ------------------------------------------------- check_advertiser_videos

\* return has_videos, video_count: through the finally.
CavReturn(r, h, c) ==
    /\ ret' = AssignLocal(ret, r, ReturnVideos(h, c))
    /\ pc' = AssignLocal(pc, r, "cav_finally")

\* An operation raised and one of the two except clauses (lines 857-861,
\* 862-866) caught it: return False, None.
CavExcept(r) ==
    /\ Raises
    /\ CavReturn(r, FALSE, NoneCount)

\* Lines 764-778: the table of known video counts.
cav_lookup(r) ==
    /\ pc[r] = "cav_lookup"
    /\ known_video_counts' = AssignLocal(known_video_counts, r,
           dict_after_lookup(known_video_counts_literal, advertiser_id[r]))
    /\ IF advertiser_id[r] \in DOMAIN known_video_counts_literal
       THEN /\ has_videos' = AssignLocal(has_videos, r, TRUE)
            /\ video_count' = AssignLocal(video_count, r,
                                  known_video_counts_literal[advertiser_id[r]])
            /\ pc' = AssignLocal(pc, r, "respond")
            /\ UNCHANGED browser
       ELSE /\ browser' = AssignLocal(browser, r, None)
            /\ pc' = AssignLocal(pc, r, "cav_start")
            /\ UNCHANGED videos
    /\ UNCHANGED <<advertiser_id, ret, calls, response, written, faults,
                   open_browsers, drivers, known_ids, polling, reqvars, direct_call,
                   envvars>>

\* Line 780: playwright_instance = await async_playwright().start()
cav_start_playwright(r) ==
    /\ pc[r] = "cav_start"
    /\ \/ /\ Returns
          /\ drivers' = AssignLocal(drivers, r, drivers[r] + 1)
          /\ pc' = AssignLocal(pc, r, "cav_launch")
          /\ UNCHANGED ret
       \/ /\ CavExcept(r)
          /\ UNCHANGED drivers
    /\ UNCHANGED <<advertiser_id, calls, response, written, browser, open_browsers,
                   tables, videos, polling, reqvars, direct_call, envvars>>

\* Line 781: browser = await playwright_instance.chromium.launch(headless=True)
cav_launch(r) ==
    /\ pc[r] = "cav_launch"
    /\ \/ /\ Returns
          /\ browser' = AssignLocal(browser, r, <<"Browser">>)
          /\ open_browsers' = AssignLocal(open_browsers, r, open_browsers[r] + 1)
          /\ pc' = AssignLocal(pc, r, "cav_new_context")
          /\ UNCHANGED ret
       \/ /\ CavExcept(r)
          /\ UNCHANGED <<browser, open_browsers>>
    /\ UNCHANGED <<advertiser_id, calls, response, written, drivers,
                   tables, videos, polling, reqvars, direct_call, envvars>>

\* Line 784: context = await browser.new_context(...)
cav_new_context(r) ==
    /\ pc[r] = "cav_new_context"
    /\ \/ /\ Returns
          /\ pc' = AssignLocal(pc, r, "cav_new_page")
          /\ UNCHANGED ret
       \/ CavExcept(r)
    /\ UNCHANGED <<advertiser_id, calls, response, written, procs, tables,
                   videos, polling, reqvars, direct_call, envvars>>

\* Line 792: page = await context.new_page()
cav_new_page(r) ==
    /\ pc[r] = "cav_new_page"
    /\ \/ /\ Returns
          /\ pc' = AssignLocal(pc, r, "cav_goto")
          /\ UNCHANGED ret
       \/ CavExcept(r)
    /\ UNCHANGED <<advertiser_id, calls, response, written, procs, tables,
                   videos, polling, reqvars, direct_call, envvars>>

\* Lines 795-800: await page.goto(the video page of the advertiser)
cav_goto(r) ==
    /\ pc[r] = "cav_goto"
    /\ \/ /\ Returns
          /\ pc' = AssignLocal(pc, r, "cav_shot_page")
          /\ UNCHANGED ret
       \/ CavExcept(r)
    /\ UNCHANGED <<advertiser_id, calls, response, written, procs, tables,
                   videos, polling, reqvars, direct_call, envvars>>

\* Line 801: screenshot of the video page.
cav_screenshot_page(r) ==
    /\ pc[r] = "cav_shot_page"
    /\ \/ /\ Returns
          /\ WriteFile(VideoScreenshotPath(advertiser_id[r], "_video_page.png"), r)
          /\ pc' = AssignLocal(pc, r, "cav_wait_load")
          /\ UNCHANGED ret
       \/ /\ CavExcept(r)
          /\ UNCHANGED written
    /\ UNCHANGED <<advertiser_id, calls, response, procs,
                   tables, videos, polling, reqvars, direct_call, envvars>>

\* Line 804: await page.wait_for_load_state("domcontentloaded")
cav_wait_for_load_state(r) ==
    /\ pc[r] = "cav_wait_load"
    /\ \/ /\ Returns
          /\ pc' = AssignLocal(pc, r, "cav_eval")
          /\ UNCHANGED ret
       \/ CavExcept(r)
    /\ UNCHANGED <<advertiser_id, calls, response, written, procs, tables,
                   videos, polling, reqvars, direct_call, envvars>>

\* Every count taken for a sign of videos, zero included.
has_videos_of_any_count(count) == count >= 0
\* Line 850: has_videos = video_count > 0
has_videos_of(count) == count > 0

\* Lines 807-851: the in-page script counting video elements;
\* has_videos = video_count > 0.
cav_evaluate(r) ==
    /\ pc[r] = "cav_eval"
    /\ \/ \E count \in VideoCounts :
            /\ Returns
            /\ ret' = AssignLocal(ret, r,
                        ReturnVideos(has_videos_of(count), count))
            /\ pc' = AssignLocal(pc, r, "cav_shot_detection")
       \/ CavExcept(r)
    /\ UNCHANGED <<advertiser_id, calls, response, written, procs,
                   tables, videos, polling, reqvars, direct_call, envvars>>

\* Lines 854-861: the second screenshot, then return has_videos, video_count.
cav_screenshot_detection(r) ==
    /\ pc[r] = "cav_shot_detection"
    /\ \/ /\ Returns
          /\ WriteFile(VideoScreenshotPath(advertiser_id[r],
                                           "_video_detection.png"), r)
          /\ pc' = AssignLocal(pc, r, "cav_finally")
          /\ UNCHANGED ret
       \/ /\ CavExcept(r)
          /\ UNCHANGED written
    /\ UNCHANGED <<advertiser_id, calls, response, procs,
                   tables, videos, polling, reqvars, direct_call, envvars>>

\* Lines 867-869 and the return to line 110.
cav_finally(r) ==
    /\ pc[r] = "cav_finally"
    /\ browser' = AssignLocal(browser, r, None)
    /\ ret' = AssignLocal(ret, r, NoRet)
    /\ \/ /\ browser[r] = None
          /\ Returns
          /\ has_videos' = AssignLocal(has_videos, r, ret[r].has_videos)
          /\ video_count' = AssignLocal(video_count, r, ret[r].video_count)
          /\ pc' = AssignLocal(pc, r, "respond")
          /\ UNCHANGED <<open_browsers, response>>
       \/ /\ browser[r] # None
          /\ CloseSucceeded(r)
          /\ has_videos' = AssignLocal(has_videos, r, ret[r].has_videos)
          /\ video_count' = AssignLocal(video_count, r, ret[r].video_count)
          /\ pc' = AssignLocal(pc, r, "respond")
          /\ UNCHANGED response
       \/ /\ browser[r] # None
          /\ CloseFailed(r)
          /\ EndpointExcept(r, StrError("Error"))
          /\ UNCHANGED videos
    /\ UNCHANGED <<advertiser_id, calls, written, drivers, tables, polling,
                   reqvars, direct_call, envvars>>

\* ------------------------------------------------------------ specification

\* One step of the coroutine serving request r, once the request is in.
RequestStep(r) ==
    \/ gid_lookup(r)
    \/ gid_start_playwright(r)
    \/ gid_launch(r)
    \/ gid_new_context(r)
    \/ gid_new_page(r)
    \/ gid_goto(r)
    \/ gid_screenshot_initial(r)
    \/ s1_wait_for_load_state(r)
    \/ s1_wait_for_selector(r)
    \/ s1_query_selector(r)
    \/ s1_click_input(r)
    \/ s1_wait_after_click(r)
    \/ s1_clear_input(r)
    \/ s1_wait_after_clear(r)
    \/ s1_fill_name(r)
    \/ s1_screenshot_before(r)
    \/ s1_press_enter(r)
    \/ s1_wait_after_enter(r)
    \/ s1_wait_for_dom(r)
    \/ s1_screenshot_after(r)
    \/ s1_poll_url(r)
    \/ s1_poll_wait(r)
    \/ s1_screenshot_results(r)
    \/ s1_click_result(r)
    \/ s1_wait_after_result_click(r)
    \/ s1_url_after_click(r)
    \/ s1_error_screenshot(r)
    \/ efc_screenshot(r)
    \/ efc_method1(r)
    \/ efc_method2(r)
    \/ s2_goto(r)
    \/ s2_wait_for_load_state(r)
    \/ s2_click_body(r)
    \/ s2_press_tab(r)
    \/ s2_wait_after_tab(r)
    \/ s2_type_name(r)
    \/ s2_read_url(r)
    \/ s2_press_enter(r)
    \/ s2_wait_after_enter(r)
    \/ s2_poll_url(r)
    \/ s2_poll_wait(r)
    \/ s2_error_screenshot(r)
    \/ gid_finally(r)
    \/ endpoint_check_id(r)
    \/ cav_lookup(r)
    \/ cav_start_playwright(r)
    \/ cav_launch(r)
    \/ cav_new_context(r)
    \/ cav_new_page(r)
    \/ cav_goto(r)
    \/ cav_screenshot_page(r)
    \/ cav_wait_for_load_state(r)
    \/ cav_evaluate(r)
    \/ cav_screenshot_detection(r)
    \/ cav_finally(r)
    \/ endpoint_respond(r)

\* A client posts a request whose advertiser_name is one of names.
Receive(r, names) == \E name \in names : scrape_advertiser_endpoint(r, name)

\* The server with two /scrape requests that may overlap.
Next ==
    \/ ping
    \/ \E r \in Requests : Receive(r, Names) \/ RequestStep(r)

Spec == Init /\ [][Next]_vars

\* The server with one /scrape request, of any name.
NextSingle ==
    \/ ping
    \/ Receive(1, AllNames)
    \/ RequestStep(1)

SpecSingle == InitSingle /\ [][NextSingle]_vars

\* The same server where the event loop keeps running the handler: every
\* awaited operation returns or raises (times out), and the coroutine is
\* then resumed.
SpecSingleLive == SpecSingle /\ WF_vars(RequestStep(1))

\* ---------------------------------------- the functions called on their own

\* The url argument of extract_advertiser_id_from_url.
TestUrls ==
    LET UrlPieces ==
            { <<>>,
              <<"?","i","d","=","B","7">>,
              <<"&","q","=","A","R","5","6">>,
              <<"?","q","=","A","R",chr(1633),chr(1634)>>,
              <<"/">> \o Lit_advertiser \o <<chr(65297),"A">>,
              <<"/">> \o Lit_advertiser \o <<"X","1","Y">>,
              <<"/">> \o Lit_advertiser \o <<"a","r","9">>,
              <<"&","i","d","=","9","Z","a">> }
    IN Urls \cup {<<>>}
            \cup { HomeUrl \o a \o b \o c : a \in UrlPieces, b \in UrlPieces,
                                            c \in UrlPieces }

\* What page.content() returns to extract_advertiser_id_from_content.
TestContents ==
    LET ContentPieces ==
            { <<>>,
              <<"A","R","5","6"," ">>,
              <<"A","R",chr(1637),chr(1638)," ">>,
              Lit_advertiser \o <<"A","R","1","2","\"">>,
              Lit_advertiser \o <<chr(1633),"Q","1"," ">>,
              <<"<","p",">","A","R","<","/","p",">">>,
              Lit_advertiser \o <<"x"," ">> }
    IN Contents \cup { a \o b : a \in ContentPieces, b \in ContentPieces }

\* What page.content() returns to get_page_content, with the element the
\* BeautifulSoup searches of lines 533-591 find in it: each of the four
\* takes the str of an <input> element, so none finds anything in a page
\* without one.  In the last but one the form has a search role (third
\* search); in the last no search reaches the input.
PageCases ==
    { [content |-> <<>>, soup_input |-> <<>>],
      [content |-> <<"<","p",">","n","o","n","e","<","/","p",">">>,
       soup_input |-> <<>>],
      [content |-> <<"a","\r","\n","b",chr(11),"\n","\r","c",chr(8232)>>,
       soup_input |-> <<>>],
      [content |-> <<"<","f","o","r","m"," ","r","o","l","e","=","\"","s","e",
                     "a","r","c","h","\"",">","<","i","n","p","u","t","/",">",
                     "<","/","f","o","r","m",">">>,
       soup_input |-> <<"<","i","n","p","u","t","/",">">>],
      [content |-> <<"<","i","n","p","u","t","/",">","\n">>,
       soup_input |-> <<>>] }

\* What the in-page script of lines 596-625 returns: the outerHTML of an
\* input, or "".
SearchInputsJs == { <<>>, <<"<","i","n","p","u","t",">">> }

\* The call has not returned yet.
Pending == [returned |-> FALSE, result |-> None]
\* The call returned v / an exception left it.
Returned(v) == [returned |-> TRUE, result |-> v]
Raised(type, text) ==
    [returned |-> FALSE, exception |-> [type |-> type, text |-> text]]

InitExtract ==
    /\ InitProgram
    /\ fault_budget = MaxDirectFaults
    /\ direct_call \in
         { [fn |-> "extract_advertiser_id_from_url", url |-> u,
            at |-> "call", outcome |-> Pending] : u \in TestUrls }
         \cup
         { [fn |-> "extract_advertiser_id_from_content", content |-> c,
            js_result |-> j, at |-> "efc_shot", outcome |-> Pending] :
              c \in TestContents, j \in JsResults }
         \cup
         { [fn |-> "get_page_content", page |-> p, search_input_js |-> j,
            at |-> "gpc_start", dom_list |-> None, search_input |-> None,
            pending |-> Pending, outcome |-> Pending] :
              p \in PageCases, j \in SearchInputsJs }

\* The variables of the server, which a function called on its own leaves
\* alone.
servervars == <<pc, request, advertiser_name, advertiser_id, has_videos,
                video_count, known_ids, known_video_counts, browser, ret,
                strategy, attempt, tab_round, pre_search_url, calls, response,
                ping_response, fault_budget>>

\* Lines 464-490: extract_advertiser_id_from_url(url) called and returned;
\* the function awaits nothing.
direct_extract_from_url ==
    /\ direct_call.fn = "extract_advertiser_id_from_url"
    /\ direct_call.at = "call"
    /\ direct_call' =
         [direct_call EXCEPT
            !.at = "done",
            !.outcome = Returned(extract_advertiser_id_from_url(direct_call.url))]
    /\ UNCHANGED <<written, open_browsers, drivers, faults, servervars>>

\* extract_advertiser_id_from_content(page, name) called on its own is over:
\* it returned v (method2 tells whether the in-page script of Method 2 was
\* run), or the exception of line 383 left it.
DirectExtractOver(out) ==
    direct_call' = [direct_call EXCEPT !.at = "done", !.outcome = out]

\* Line 383: the screenshot taken before the try block; an exception of it
\* leaves the function.
direct_efc_screenshot ==
    /\ direct_call.fn = "extract_advertiser_id_from_content"
    /\ direct_call.at = "efc_shot"
    /\ \/ /\ Returns
          /\ WriteFile(ScreenshotPath("page_content.png"), Direct)
          /\ direct_call' = [direct_call EXCEPT !.at = "efc_content"]
       \/ /\ Raises
          /\ DirectExtractOver(Raised("Error", StrError("Error")))
          /\ UNCHANGED written
    /\ UNCHANGED <<open_browsers, drivers, servervars>>

\* Lines 387-404, 458-461: page.content() and Method 1.
direct_efc_method1 ==
    /\ direct_call.fn = "extract_advertiser_id_from_content"
    /\ direct_call.at = "efc_content"
    /\ \/ /\ Returns
          /\ IF content_method1(direct_call.content) # None
             THEN DirectExtractOver(
                      [returned |-> TRUE, method2 |-> FALSE,
                       result |-> content_method1(direct_call.content)])
             ELSE direct_call' = [direct_call EXCEPT !.at = "efc_js"]
       \/ \* page.content() raised: caught at line 458, return None
          /\ Raises
          /\ DirectExtractOver([returned |-> TRUE, method2 |-> FALSE,
                                result |-> None])
    /\ UNCHANGED <<written, open_browsers, drivers, servervars>>

\* Lines 406-461: Method 2, the in-page script.
direct_efc_method2 ==
    /\ direct_call.fn = "extract_advertiser_id_from_content"
    /\ direct_call.at = "efc_js"
    /\ \/ /\ Returns
          /\ DirectExtractOver(
                 [returned |-> TRUE, method2 |-> TRUE,
                  result |-> content_method2(direct_call.js_result)])
       \/ \* page.evaluate raised: caught at line 455, return None
          /\ Raises
          /\ DirectExtractOver([returned |-> TRUE, method2 |-> TRUE,
                                result |-> None])
    /\ UNCHANGED <<written, open_browsers, drivers, servervars>>

\* ------------------------------------------------------- get_page_content

\* get_page_content is suspended at the await named label.
GpcAt(label) ==
    /\ direct_call.fn = "get_page_content"
    /\ direct_call.at = label

\* An operation before the try block (lines 505-514) raised: the exception
\* leaves the async with block, which stops the driver.
GpcLeave ==
    /\ Raises
    /\ direct_call' = [direct_call EXCEPT
                          !.at = "gpc_stop",
                          !.pending = Raised("Error", StrError("Error"))]

\* An operation of the try block raised and except Exception (line 639)
\* caught it: on to the error screenshot.
GpcExcept ==
    /\ Raises
    /\ direct_call' = [direct_call EXCEPT !.at = "gpc_error_shot"]

\* Lines 635-638: return the dictionary; the finally clause runs first.
GpcReturn(dom_list, search_input) ==
    direct_call' =
        [direct_call EXCEPT
           !.at = "gpc_close",
           !.dom_list = dom_list,
           !.search_input = search_input,
           !.pending = Returned([dom_content |-> dom_list,
                                 search_input |-> search_input])]

\* Line 503: async with async_playwright() as p starts the driver.
gpc_start_playwright ==
    /\ GpcAt("gpc_start")
    /\ \/ /\ Returns
          /\ drivers' = AssignLocal(drivers, Direct, drivers[Direct] + 1)
          /\ direct_call' = [direct_call EXCEPT !.at = "gpc_launch"]
       \/ /\ Raises
          /\ direct_call' = [direct_call EXCEPT
                                !.at = "done",
                                !.outcome = Raised("Error", StrError("Error"))]
          /\ UNCHANGED drivers
    /\ UNCHANGED <<written, open_browsers, servervars>>

\* Line 505: browser = await p.chromium.launch(headless=True)
gpc_launch ==
    /\ GpcAt("gpc_launch")
    /\ \/ /\ Returns
          /\ open_browsers' =
                 AssignLocal(open_browsers, Direct, open_browsers[Direct] + 1)
          /\ direct_call' = [direct_call EXCEPT !.at = "gpc_new_context"]
       \/ /\ GpcLeave
          /\ UNCHANGED open_browsers
    /\ UNCHANGED <<written, drivers, servervars>>

\* Lines 508-512: context = await browser.new_context(...); no try block
\* yet, so the browser is not closed when this raises.
gpc_new_context ==
    /\ GpcAt("gpc_new_context")
    /\ \/ /\ Returns
          /\ direct_call' = [direct_call EXCEPT !.at = "gpc_new_page"]
       \/ GpcLeave
    /\ UNCHANGED <<written, open_browsers, drivers, servervars>>

\* Lines 514-516: page = await context.new_page()
gpc_new_page ==
    /\ GpcAt("gpc_new_page")
    /\ \/ /\ Returns
          /\ direct_call' = [direct_call EXCEPT !.at = "gpc_goto"]
       \/ GpcLeave
    /\ UNCHANGED <<written, open_browsers, drivers, servervars>>

\* Lines 518-521: await page.goto(url)
gpc_goto ==
    /\ GpcAt("gpc_goto")
    /\ \/ /\ Returns
          /\ direct_call' = [direct_call EXCEPT !.at = "gpc_wait_load"]
       \/ GpcExcept
    /\ UNCHANGED <<written, open_browsers, drivers, servervars>>

\* Line 524: await page.wait_for_load_state("networkidle")
gpc_wait_for_load_state ==
    /\ GpcAt("gpc_wait_load")
    /\ \/ /\ Returns
          /\ direct_call' = [direct_call EXCEPT !.at = "gpc_content"]
       \/ GpcExcept
    /\ UNCHANGED <<written, open_browsers, drivers, servervars>>

\* Lines 527-591: content = await page.content(), its lines, and the four
\* searches of the parsed page for the search input; lines 594, 631: with an
\* input found neither the script nor the screenshot is run.
gpc_content ==
    /\ GpcAt("gpc_content")
    /\ \/ /\ Returns
          /\ IF direct_call.page.soup_input # <<>>
             THEN GpcReturn(splitlines(direct_call.page.content),
                            direct_call.page.soup_input)
             ELSE direct_call' =
                      [direct_call EXCEPT
                         !.at = "gpc_evaluate",
                         !.dom_list = splitlines(direct_call.page.content),
                         !.search_input = <<>>]
       \/ GpcExcept
    /\ UNCHANGED <<written, open_browsers, drivers, servervars>>

\* Lines 594-631: the in-page script; what it returns is the search input
\* unless it is empty.
gpc_evaluate ==
    /\ GpcAt("gpc_evaluate")
    /\ \/ /\ Returns
          /\ IF direct_call.search_input_js # <<>>
             THEN GpcReturn(direct_call.dom_list, direct_call.search_input_js)
             ELSE direct_call' = [direct_call EXCEPT !.at = "gpc_shot_not_found"]
       \/ GpcExcept
    /\ UNCHANGED <<written, open_browsers, drivers, servervars>>

\* Lines 631-638: no search input found: a screenshot, and the words
\* returned in its place.
gpc_screenshot_not_found ==
    /\ GpcAt("gpc_shot_not_found")
    /\ \/ /\ Returns
          /\ WriteFile(<<"search_input_not_found.png">>, Direct)
          /\ GpcReturn(direct_call.dom_list,
                       <<"No", "search", "input", "found">>)
       \/ /\ GpcExcept
          /\ UNCHANGED written
    /\ UNCHANGED <<open_browsers, drivers, servervars>>

\* Lines 639-646: the error screenshot, whose own exception is passed over,
\* then raise Exception("Error getting page content: " + str(e)).
gpc_error_screenshot ==
    /\ GpcAt("gpc_error_shot")
    /\ \/ /\ Returns
          /\ WriteFile(<<"error_screenshot.png">>, Direct)
       \/ /\ Raises
          /\ UNCHANGED written
    /\ direct_call' =
         [direct_call EXCEPT
            !.at = "gpc_close",
            !.pending = Raised("Exception",
                               <<"Error", "getting", "page", "content:">>
                                   \o StrError("Error"))]
    /\ UNCHANGED <<open_browsers, drivers, servervars>>

\* Lines 647-649: finally: await browser.close(); its exception takes the
\* place of the pending return value or exception.
gpc_close ==
    /\ GpcAt("gpc_close")
    /\ \/ /\ CloseSucceeded(Direct)
          /\ direct_call' = [direct_call EXCEPT !.at = "gpc_stop"]
       \/ /\ CloseFailed(Direct)
          /\ direct_call' = [direct_call EXCEPT
                                !.at = "gpc_stop",
                                !.pending = Raised("Error", StrError("Error"))]
    /\ UNCHANGED <<written, drivers, servervars>>

\* Line 503, leaving the async with block: the driver is stopped, and the
\* pending return value or exception reaches the caller; when stopping
\* raises, that exception does, and the driver may or may not be gone.
gpc_stop_playwright ==
    /\ GpcAt("gpc_stop")
    /\ \/ /\ Returns
          /\ drivers' = AssignLocal(drivers, Direct, drivers[Direct] - 1)
          /\ direct_call' = [direct_call EXCEPT
                                !.at = "done",
                                !.outcome = direct_call.pending]
       \/ /\ Raises
          /\ \E left \in {drivers[Direct], drivers[Direct] - 1} :
                drivers' = AssignLocal(drivers, Direct, left)
          /\ direct_call' = [direct_call EXCEPT
                                !.at = "done",
                                !.outcome = Raised("Error", StrError("Error"))]
    /\ UNCHANGED <<written, open_browsers, servervars>>

\* The functions called on their own.
NextExtract ==
    \/ direct_extract_from_url
    \/ direct_efc_screenshot
    \/ direct_efc_method1
    \/ direct_efc_method2
    \/ gpc_start_playwright
    \/ gpc_launch
    \/ gpc_new_context
    \/ gpc_new_page
    \/ gpc_goto
    \/ gpc_wait_for_load_state
    \/ gpc_content
    \/ gpc_evaluate
    \/ gpc_screenshot_not_found
    \/ gpc_error_screenshot
    \/ gpc_close
    \/ gpc_stop_playwright

SpecExtract == InitExtract /\ [][NextExtract]_vars

\* ------------------------------------------------------------------ claims

Received == {r \in Requests : pc[r] # "idle"}
IsBlank(s) == \A i \in DOMAIN s : s[i] \in Whitespace
PaddedAdidas == { l \o n \o t : l \in Pads, n \in AdidasSpellings, t \in Pads }

\* C1: when get_advertiser_id has returned None to the endpoint (the name is
\* not empty there), the response the endpoint then sends has status 404.
C1_NotFoundResponds404 ==
    [][\A r \in Requests :
          (pc[r] = "check_id" /\ advertiser_id[r] = None /\ pc'[r] = "done")
              => response'[r].status = 404]_vars

\* C2: a request whose advertiser_name is empty or only whitespace is
\* answered with status 400 and a detail containing the word "empty".
C2_BlankNameResponds400 ==
    \A r \in Requests :
        (pc[r] # "idle" /\ IsBlank(request[r]))
            => /\ pc[r] = "done"
               /\ response[r].status = 400
               /\ "empty" \in Range(response[r].detail)

C2_Witness ==
    \E r \in Requests :
        /\ request[r] = <<chr(12288),chr(8232),chr(31)>>
        /\ response[r].status = 400

\* C3: when get_advertiser_id has returned an ID (check_advertiser_videos
\* was then called), the response has status 200 and its body has a field
\* advertiser_id equal to that ID.
C3_BodyHasAdvertiserId ==
    \A r \in Requests :
        (pc[r] = "done" /\ "check_advertiser_videos" \in Range(calls[r]))
            => /\ response[r].status = 200
               /\ "advertiser_id" \in DOMAIN response[r].body
               /\ response[r].body.advertiser_id = advertiser_id[r]

\* C4: a 200 response of /scrape was preceded by calls of
\* scrape_advertiser_page and extract_text_from_images, and its body has the
\* fields tags and image_text.
C4_BodyHasTagsAndImageText ==
    \A r \in Requests :
        response[r].status = 200
            => /\ "scrape_advertiser_page" \in Range(calls[r])
               /\ "extract_text_from_images" \in Range(calls[r])
               /\ {"tags", "image_text"} \subseteq DOMAIN response[r].body

\* C5: a request whose advertiser_name is "adidas" in any letter case, with
\* any whitespace around it, is answered 200 with the known ID,
\* has_videos = true and video_count = 34.
C5_AdidasResponse ==
    \A r \in Requests :
        (pc[r] = "done" /\ request[r] \in PaddedAdidas)
            => response[r] =
                 [status |-> 200,
                  body |-> [advertiser_google_id |-> AdidasId,
                            has_videos |-> TRUE,
                            video_count |-> 34]]

C5_Witness ==
    \E r \in Requests :
        /\ request[r] = <<chr(11),chr(133),chr(8195)>>
                           \o <<"A","d","I","d","A","s">> \o <<"\r"," ","\f">>
        /\ response[r].status = 200

\* C6: get_advertiser_id takes the browser path only for names that are not
\* "adidas" in some letter case; for a name that is, it returns the known ID
\* having started no driver, launched no browser and written no screenshot;
\* for any other name it returns only after Playwright was started or
\* failed to start.
C6_KnownIdWithoutBrowser ==
    \A r \in Requests :
        /\ pc[r] = "gid_start" => advertiser_name[r] \notin AdidasSpellings
        /\ (pc[r] = "check_id" /\ advertiser_name[r] \in AdidasSpellings)
              => /\ advertiser_id[r] = AdidasId
                 /\ drivers[r] = 0 /\ open_browsers[r] = 0
                 /\ browser[r] = None /\ written[r] = {} /\ faults = 0
        /\ (pc[r] = "check_id" /\ advertiser_name[r] \notin AdidasSpellings)
              => drivers[r] + faults >= 1

C6_Witness ==
    \E r \in Requests :
        /\ pc[r] = "check_id"
        /\ advertiser_name[r] = <<"A","D","I","D","a","s">>
        /\ advertiser_id[r] = AdidasId

BrowserPathOfVideos ==
    {"cav_start", "cav_launch", "cav_new_context", "cav_new_page", "cav_goto",
     "cav_shot_page", "cav_wait_load", "cav_eval", "cav_shot_detection",
     "cav_finally"}

\* C7: for the known ID, check_advertiser_videos returns (True, 34) in its
\* first step, starting no driver and launching no browser; for any other
\* ID its first step returns nothing and enters the browser path, which the
\* known ID never enters.
C7_KnownVideoCountWithoutBrowser ==
    /\ [](\A r \in Requests :
            pc[r] \in BrowserPathOfVideos => advertiser_id[r] # AdidasId)
    /\ [][\A r \in Requests :
            (pc[r] = "cav_lookup" /\ pc'[r] # "cav_lookup")
              => IF advertiser_id[r] = AdidasId
                 THEN /\ pc'[r] = "respond"
                      /\ has_videos'[r] = TRUE /\ video_count'[r] = 34
                      /\ drivers'[r] = drivers[r]
                      /\ open_browsers'[r] = open_browsers[r]
                      /\ written'[r] = written[r] /\ faults' = faults
                 ELSE /\ pc'[r] = "cav_start"
                      /\ has_videos'[r] = has_videos[r]
                      /\ video_count'[r] = video_count[r]]_vars

C7_Witness ==
    \E r \in Requests :
        /\ pc[r] = "respond"
        /\ advertiser_id[r] = AdidasId
        /\ drivers[r] = 1
        /\ has_videos[r] = TRUE /\ video_count[r] = 34

\* C8 as claimed: at most one browser session is open at any time, over all
\* requests.
C8_OneBrowserOverall == open_browsers[1] + open_browsers[2] <= 1

\* C8 amended: the browser sessions open at any time are at most one for
\* each request received so far; two requests have sessions open at once.
C8_OneBrowserPerRequest ==
    /\ open_browsers[1] + open_browsers[2] <= Cardinality(Received)
    /\ \A r \in Requests : open_browsers[r] >= 0

C8_Witness ==
    /\ open_browsers[1] = 1 /\ open_browsers[2] = 1
    /\ pc[1] = "s1_poll" /\ pc[2] = "s1_poll"

\* C9 as claimed: no screenshot file written while serving one request is
\* written by another request.
C9_NoFileWrittenByTwoRequests ==
    \A r1, r2 \in Requests : r1 # r2 => written[r1] \cap written[r2] = {}

\* The variables of the coroutine serving request r.
Locals(r) ==
    <<pc[r], request[r], advertiser_name[r], advertiser_id[r], has_videos[r],
      video_count[r], known_ids[r], known_video_counts[r], browser[r], ret[r],
      strategy[r], attempt[r], tab_round[r], pre_search_url[r], calls[r],
      response[r],
      open_browsers[r], drivers[r], written[r]>>

\* C9 amended: no step changes the variables of two requests, that is, what
\* one request writes in memory no other request writes; the screenshot
\* files are shared.
C9_NoSharedVariables ==
    [][\A r1, r2 \in Requests :
          (r1 # r2 /\ Locals(r1)' # Locals(r1)) => Locals(r2)' = Locals(r2)]_vars

C9_Witness ==
    \E r1, r2 \in Requests :
        /\ r1 # r2
        /\ pc[r1] = "s1_wait_load" /\ pc[r2] = "s1_fill"
        /\ ScreenshotPath("initial_page.png") \in written[r1] \cap written[r2]

\* C10: whatever requests were served, each of the two tables, once built,
\* holds exactly its one literal entry.
C10_TablesStatic ==
    \A r \in Requests :
        /\ known_ids[r] # NoDict
              => /\ DOMAIN known_ids[r] = {<<"a","d","i","d","a","s">>}
                 /\ known_ids[r][<<"a","d","i","d","a","s">>] = AdidasId
        /\ known_video_counts[r] # NoDict
              => /\ DOMAIN known_video_counts[r] = {AdidasId}
                 /\ known_video_counts[r][AdidasId] = 34

C10_Witness ==
    /\ ping_response.status = 200
    /\ response[1].status = 200 /\ response[2].status = 500
    /\ known_ids[1] # NoDict /\ known_ids[2] # NoDict
    /\ known_video_counts[1] # NoDict

\* C11: whenever get_advertiser_id is about to return None after Strategy 1
\* had begun (so Strategy 1 ended without an ID), Strategy 2 was attempted.
C11_Strategy2Attempted ==
    \A r \in Requests :
        (pc[r] = "gid_finally" /\ strategy[r] # 0 /\ ret[r].value = None)
            => strategy[r] = 2

\* C12: a step in which browser.close() raises out of get_advertiser_id or
\* check_advertiser_videos ends the request with status 500 and a detail that
\* starts with "Error during scraping:"; every request that is over has
\* status 200, 400 or 500, and every 500 has that detail.
C12_ExceptionsBecome500 ==
    /\ [](\A r \in Requests :
            pc[r] = "done"
              => /\ response[r].status \in {200, 400, 500}
                 /\ response[r].status = 500
                      => /\ Len(response[r].detail) >= 3
                         /\ SubSeq(response[r].detail, 1, 3)
                              = <<"Error", "during", "scraping:">>)
    /\ [][\A r \in Requests :
            (/\ pc[r] \in {"gid_finally", "cav_finally"}
             /\ pc'[r] # pc[r]
             /\ faults' # faults)
              => /\ pc'[r] = "done"
                 /\ response'[r].status = 500
                 /\ SubSeq(response'[r].detail, 1, 3)
                      = <<"Error", "during", "scraping:">>]_vars

C12_Witness ==
    \E r \in Requests :
        /\ pc[r] = "done"
        /\ calls[r] = <<"get_advertiser_id", "check_advertiser_videos">>
        /\ response[r].status = 500
        /\ response[r].detail = <<"Error", "during", "scraping:", "Error">>

\* The positions of s where the literal lit is followed by a character of cls.
Occurrences(s, lit, cls) ==
    { i \in 1..Len(s) :
        /\ i + Len(lit) <= Len(s)
        /\ SubSeq(s, i, i + Len(lit) - 1) = lit
        /\ s[i + Len(lit)] \in cls }

Leftmost(positions) == CHOOSE i \in positions : \A j \in positions : i <= j

\* The longest stretch of characters of cls that starts at position j of s.
Stretch(s, j, cls) ==
    LET e == CHOOSE e \in j..Len(s) :
                 /\ \A k \in j..e : s[k] \in cls
                 /\ e = Len(s) \/ s[e + 1] \notin cls
    IN SubSeq(s, j, e)

\* "Uppercase letters or digits" after "advertiser/" and "id=" are the
\* characters A-Z and 0-9; the "digits" after "AR" are the decimal digits of
\* every script, 0-9 among them.
IdChars == Range(UpperLetters) \cup AsciiDigits
AfterAdvertiser(s) == Occurrences(s, Lit_advertiser, IdChars)
ArDigits(s) == Occurrences(s, <<"A","R">>, Digits)
IdParam(s) == Occurrences(s, <<"?","i","d","=">>, IdChars)
                \cup Occurrences(s, <<"&","i","d","=">>, IdChars)

\* The first match, in the text, of "AR" and digits or of "advertiser/" and
\* uppercase letters or digits: the ID it names.
FirstMatch(s) ==
    LET i == Leftmost(ArDigits(s) \cup AfterAdvertiser(s))
    IN IF i \in ArDigits(s)
       THEN <<"A","R">> \o Stretch(s, i + 2, Digits)
       ELSE Stretch(s, i + Len(Lit_advertiser), IdChars)

\* C13: extract_advertiser_id_from_content, on a page whose operations do
\* not raise and whose content has at least one match of "AR" and digits or
\* "advertiser/" and uppercase letters or digits, returns the first such
\* match and does not run the script of Method 2.
C13_Method1ReturnsFirstMatch ==
    (/\ direct_call.fn = "extract_advertiser_id_from_content"
     /\ direct_call.outcome.returned
     /\ faults = 0
     /\ ArDigits(direct_call.content) \cup AfterAdvertiser(direct_call.content)
          # {})
        => /\ direct_call.outcome.result = FirstMatch(direct_call.content)
           /\ ~direct_call.outcome.method2

\* C14: extract_advertiser_id_from_url returns the segment after the first
\* "advertiser/" if there is one, else the first "AR" and digits, else the
\* value of the first id= parameter, else None; a result other than None is
\* a non-empty string of uppercase letters and digits.
C14_UrlPatternPriority ==
    (/\ direct_call.fn = "extract_advertiser_id_from_url"
     /\ direct_call.outcome.returned)
        => LET url == direct_call.url
               result == direct_call.outcome.result
           IN /\ result =
                   IF AfterAdvertiser(url) # {}
                   THEN Stretch(url, Leftmost(AfterAdvertiser(url))
                                       + Len(Lit_advertiser), IdChars)
                   ELSE IF ArDigits(url) # {}
                   THEN <<"A","R">>
                          \o Stretch(url, Leftmost(ArDigits(url)) + 2, Digits)
                   ELSE IF IdParam(url) # {}
                   THEN Stretch(url, Leftmost(IdParam(url)) + 4, IdChars)
                   ELSE None
              /\ result # None
                   => /\ result # <<>>
                      /\ \A i \in DOMAIN result :
                            result[i] \in Range(UpperLetters) \cup Digits

C14_Witness ==
    /\ direct_call.fn = "extract_advertiser_id_from_url"
    /\ direct_call.url = HomeUrl \o <<"?","i","d","=","B","7">>
                                 \o <<"&","q","=","A","R","5","6">>
                                 \o <<"/">> \o Lit_advertiser \o <<"X","1","Y">>
    /\ direct_call.outcome.returned
    /\ direct_call.outcome.result = <<"X","1","Y">>

\* The positions of get_advertiser_id within Strategy 1 before the page
\* content is searched.
InStrategy1 ==
    {"s1_wait_load", "s1_wait_selector", "s1_query", "s1_click_input",
     "s1_wait_focus", "s1_clear", "s1_wait_clear", "s1_fill", "s1_shot_before",
     "s1_enter", "s1_wait_enter", "s1_wait_dom", "s1_shot_after", "s1_poll",
     "s1_poll_wait", "s1_shot_results", "s1_click", "s1_click_wait",
     "s1_click_url", "s1_error_shot"}
\* The positions within Strategy 2 before the page content is searched.
InStrategy2 ==
    {"s2_goto", "s2_wait_load", "s2_click_body", "s2_tab", "s2_tab_wait",
     "s2_type", "s2_read_url", "s2_enter", "s2_wait_enter", "s2_poll",
     "s2_poll_wait", "s2_error_shot"}

InGetAdvertiserId ==
    {"gid_lookup", "gid_start", "gid_launch", "gid_new_context",
     "gid_new_page", "gid_goto", "gid_shot_initial", "efc_shot", "efc_content",
     "efc_js", "gid_finally"}
      \cup InStrategy1 \cup InStrategy2
InCheckAdvertiserVideos == BrowserPathOfVideos \cup {"cav_lookup"}

\* C15: every step that leaves get_advertiser_id is a return to its caller
\* (line 101 of the endpoint), and the value returned by a step in which an
\* operation failed is None.
C15_GetAdvertiserIdNeverRaises ==
    [][\A r \in Requests :
          (pc[r] \in InGetAdvertiserId /\ pc'[r] \notin InGetAdvertiserId)
              => /\ pc'[r] = "check_id"
                 /\ faults' # faults => advertiser_id'[r] = None]_vars

\* C16: once a step of video detection has failed, so that the pending
\* result of check_advertiser_videos is (False, None), the function returns
\* it to the endpoint, and the endpoint answers 200 with the ID,
\* has_videos = false and video_count = null.
C16_VideoFailureStillResponds200 ==
    [][\A r \in Requests :
          /\ (/\ pc[r] = "cav_finally"
              /\ ret[r] = [kind |-> "return", has_videos |-> FALSE,
                           video_count |-> NoneCount]
              /\ pc'[r] # pc[r])
                => /\ pc'[r] = "respond"
                   /\ has_videos'[r] = FALSE
                   /\ video_count'[r] = NoneCount
          /\ (/\ pc[r] = "respond"
              /\ has_videos[r] = FALSE /\ video_count[r] = NoneCount
              /\ pc'[r] # pc[r])
                => response'[r] =
                     [status |-> 200,
                      body |-> [advertiser_google_id |-> advertiser_id[r],
                                has_videos |-> FALSE,
                                video_count |-> NoneCount]]]_vars

\* C17: get_advertiser_id and check_advertiser_videos are left only through
\* their finally clause, where a launched browser is closed; whenever one of
\* them has returned to the endpoint, the request has no browser open.
C17_BrowserClosedOnReturn ==
    /\ [](\A r \in Requests :
            (\/ pc[r] \in {"check_id", "cav_lookup", "respond"}
             \/ response[r].status = 200)
                => open_browsers[r] = 0)
    /\ [][\A r \in Requests :
            /\ (pc[r] \in InGetAdvertiserId /\ pc'[r] \notin InGetAdvertiserId)
                 => \/ pc[r] = "gid_lookup"
                    \/ /\ pc[r] = "gid_finally"
                       /\ browser[r] # None
                            => \/ open_browsers'[r] = open_browsers[r] - 1
                               \/ faults' # faults
            /\ (/\ pc[r] \in InCheckAdvertiserVideos
                /\ pc'[r] \notin InCheckAdvertiserVideos)
                 => \/ pc[r] = "cav_lookup"
                    \/ /\ pc[r] = "cav_finally"
                       /\ browser[r] # None
                            => \/ open_browsers'[r] = open_browsers[r] - 1
                               \/ faults' # faults]_vars

C17_Witness ==
    \E r \in Requests :
        /\ pc[r] = "check_id"
        /\ advertiser_id[r] = <<"A","R","1","2">>
        /\ drivers[r] = 1
        /\ open_browsers[r] = 0

\* The positions of the calls of check_advertiser_videos within request r.
VideoChecks(r) ==
    { i \in DOMAIN calls[r] : calls[r][i] = "check_advertiser_videos" }

\* C18: within one request check_advertiser_videos is called at most once,
\* and only after get_advertiser_id has returned a non-empty ID: never for
\* an empty name and never when no ID was found.
C18_VideosCheckedOnceAfterId ==
    /\ [](\A r \in Requests :
            /\ Cardinality(VideoChecks(r)) <= 1
            /\ VideoChecks(r) # {}
                  => /\ calls[r] = <<"get_advertiser_id",
                                     "check_advertiser_videos">>
                     /\ advertiser_id[r] # None
                     /\ advertiser_id[r] # <<>>
                     /\ ~IsBlank(request[r])
            /\ (pc[r] = "done" /\ IsBlank(request[r])) => calls[r] = <<>>)
    /\ [][\A r \in Requests :
            VideoChecks(r)' # VideoChecks(r)
                => /\ pc[r] = "check_id"
                   /\ pc[r] \notin InGetAdvertiserId
                   /\ advertiser_id[r] \notin {None, <<>>}]_vars

C18_Witness ==
    \E r \in Requests :
        /\ pc[r] = "done"
        /\ response[r].status = 200
        /\ Cardinality(VideoChecks(r)) = 1
        /\ advertiser_id[r] = <<"A","R","1","2">>

\* C19: within a single request at most one browser is open at any moment:
\* the browser of get_advertiser_id has been closed when
\* check_advertiser_videos is entered and when it launches its own.
C19_OneBrowserAtATimeInRequest ==
    \A r \in Requests :
        /\ open_browsers[r] \in {0, 1}
        /\ pc[r] \in {"cav_lookup", "cav_start", "cav_launch"}
              => open_browsers[r] = 0

C19_Witness ==
    \E r \in Requests :
        /\ pc[r] = "cav_goto"
        /\ drivers[r] = 2
        /\ browser[r] # None
        /\ open_browsers[r] = 1

\* has_videos is true exactly when video_count is an integer above zero.
VideosAgree(h, c) == h <=> (c # NoneCount /\ c \in Nat /\ c > 0)

\* C20: every result of check_advertiser_videos, and every 200 response,
\* has has_videos true exactly when video_count is an integer greater than
\* 0, and false when video_count is 0 or null.
C20_HasVideosIffPositiveCount ==
    \A r \in Requests :
        /\ (pc[r] \in InCheckAdvertiserVideos /\ ret[r] # NoRet)
              => VideosAgree(ret[r].has_videos, ret[r].video_count)
        /\ pc[r] = "respond" => VideosAgree(has_videos[r], video_count[r])
        /\ response[r].status = 200
              => VideosAgree(response[r].body.has_videos,
                             response[r].body.video_count)

C20_Witness ==
    \E r \in Requests :
        /\ response[r].status = 200
        /\ response[r].body.has_videos = FALSE
        /\ response[r].body.video_count = 0

\* C22: once get_advertiser_id or check_advertiser_videos has returned, no
\* Playwright driver it started is still running: every start() has been
\* matched by a stop.
C22_NoDriverLeftRunning ==
    \A r \in Requests :
        pc[r] \in {"check_id", "cav_lookup", "respond", "done"}
            => drivers[r] = 0

\* C21: when every awaited operation returns or raises, every /scrape
\* request is eventually answered; each of the two polling loops reads the
\* URL at most PollAttempts times; Strategy 1 is entered once, Strategy 2
\* once and after it, and get_advertiser_id is entered once per request.
C21_EveryRequestAnswered ==
    /\ \A r \in Requests :
          (pc[r] # "idle") ~> (pc[r] = "done" /\ response[r] # NoResponse)
    /\ [](\A r \in Requests :
            /\ attempt[r] \in 0..(PollAttempts - 1)
            /\ strategy[r] \in 0..2
            /\ pc[r] \in InStrategy1 => strategy[r] = 1
            /\ pc[r] \in InStrategy2 => strategy[r] = 2)
    /\ [][\A r \in Requests :
            /\ (pc'[r] \in {"s1_poll", "s2_poll"} /\ pc[r] # pc'[r])
                  => \/ /\ pc[r] \in {"s1_shot_after", "s2_wait_enter"}
                        /\ attempt'[r] = 0
                     \/ /\ pc[r] \in {"s1_poll_wait", "s2_poll_wait"}
                        /\ attempt'[r] = attempt[r] + 1
            /\ strategy'[r] # strategy[r]
                  => \/ strategy'[r] = strategy[r] + 1
                     \/ pc[r] = "gid_finally" /\ strategy'[r] = 0
            /\ (pc'[r] = "gid_lookup" /\ pc[r] # "gid_lookup")
                  => pc[r] = "idle"]_vars

C21_Witness ==
    \E r \in Requests :
        /\ pc[r] = "done"
        /\ response[r] # NoResponse
        /\ response[r].status # 200
        /\ ScreenshotPath("after_search.png") \in written[r]
        /\ drivers[r] = 1
        /\ faults = 0

====
